---- MODULE Spec2Model ----
(***************************************************************************)
(* Model of the retrieval-augmented chat pipeline of the heritage RAG      *)
(* service: the adaptive retriever (app/rag/retriever.py), the message     *)
(* and conversation-summary tables (app/storage/supabase.py), the memory   *)
(* helpers (app/rag/memory.py), the orchestrator (app/rag/service.py) and  *)
(* the two chat routes (app/api/routes.py).                                *)
(*                                                                         *)
(* Texts are sequences of words.  Similarity scores are integers in tenths *)
(* (3 stands for 0.3, -1 for -0.1).                                        *)
(***************************************************************************)
EXTENDS Integers, Sequences, FiniteSets, TLC

VARIABLES
    \* ---- vector search backend ----
    corpus,         \* chunk lists a similarity search can currently return
    collection,     \* TRUE iff the Qdrant collection exists
    reachable,      \* TRUE iff the Qdrant server answers (client.get_collections() returns)
    \* ---- retrieve_context: parameters, locals, return value ----
    rpc,            \* "idle" | "searching" | "done" | "raised"
    rquery,         \* query
    rfilter,        \* metadata_filter (NoFilter or a required source)
    rmax,           \* max_retries
    attempt,        \* loop variable of the outer for
    vidx,           \* position in query_variations (1-based)
    best_nodes,
    best_score,
    retrieved,      \* value returned by retrieve_context
    \* ---- observers of one retrieve_context call ----
    searchCalls,    \* number of retriever.retrieve calls issued
    hitAt,          \* index of the first call whose filtered result cleared the gate (0: none)
    hitNodes,       \* that call's filtered result
    seenAny,        \* some call returned a non-empty filtered result
    seenBest,       \* first-seen filtered result with the largest max score
    seenBestScore,
    ref,            \* the same call run on the same search outcomes, a raised search replaced by zero chunks
    masked,         \* the last search returned chunks clearing the gate and the filter removed all of them
    \* ---- Supabase tables ----
    messages,       \* table "messages", in insertion (created_at) order
    uuidNext,       \* the next value uuid.uuid4() produces
    meta,           \* table "conversation_summaries": set of rows keyed by conversation_id
    \* ---- observer of the last direct call of a storage / memory function ----
    lastCall,
    \* ---- the process-wide Supabase client and the coroutines acquiring it ----
    client,         \* global _client: NoClient or a handle
    created,        \* number of handles AsyncClient.create has returned
    callers,        \* per coroutine: position in get_supabase_client and the handle it got
    \* ---- coroutines inside save_conversation_summary / save_conversation_title: ----
    \* ---- one direct caller of each function, and the ask call in progress      ----
    writers,
    \* ---- the chat request / ask call in progress ----
    pc,             \* position of the request
    req,            \* parameters and the local conversation_id of ask
    ctx,            \* context returned by get_conversation_context
    prompt,         \* prompt parts, chat history and question handed to the LLM
    full_response,  \* text accumulated / returned by the main generation
    delivered,      \* chunks the caller of ask has received
    result,         \* outcome of the request once pc = "done"
    log             \* observer: side effects of the request, in order, as <<event, conversation_id>>

retrVars == <<rpc, rquery, rfilter, rmax, attempt, vidx, best_nodes, best_score,
              retrieved, searchCalls, hitAt, hitNodes, seenAny, seenBest, seenBestScore, ref,
              masked>>

storeVars == <<messages, uuidNext, meta>>

askVars == <<pc, req, ctx, prompt, full_response, delivered, result, log>>

clientVars == <<client, created, callers>>

vars == <<corpus, collection, reachable, retrVars, storeVars, lastCall, clientVars, writers, askVars>>

-----------------------------------------------------------------------------
(* Bounds and program constants *)

MaxRetries == 3                 \* largest max_retries a caller passes
MIN_RELEVANCE_SCORE == 3        \* 0.3 in tenths
DEFAULT_MAX_RETRIES == 3

NoFilter == "none"

Scores == {-1, 0, 2, 3}
Sources == {"a", "b"}
Chunks == [score : Scores, src : Sources]
ChunkLists == {<<>>} \cup {<<c>> : c \in Chunks} \cup {<<c, d>> : c \in Chunks, d \in Chunks}

-----------------------------------------------------------------------------
(* Query expander: retriever.py _generate_query_variations *)

\* "ga" in word.lower()
ContainsGa(w) == w \in {"ga", "Ga", "again"}
\* "translat" in word.lower()
ContainsTranslat(w) == w \in {"translate", "translation"}
\* word.lower().startswith(('what', 'how', 'where', 'when', 'why'))
IsInterrogative(w) == w \in {"what", "how", "where", "when", "why", "whatever"}

HasLanguageMarker(q) ==
    \E i \in 1..Len(q) : ContainsGa(q[i]) \/ ContainsTranslat(q[i])

StartsWithInterrogative(q) == Len(q) > 0 /\ IsInterrogative(q[1])

LastThreeWords(q) == SubSeq(q, Len(q) - 2, Len(q))

generate_query_variations(q, att) ==
    IF att = 0 THEN
        IF ~HasLanguageMarker(q)
        THEN << q, <<"Ga", "language">> \o q, q \o <<"translation">> >>
        ELSE << q >>
    ELSE IF att = 1 THEN
        << q, q \o <<"meaning">>, q \o <<"Ga", "English">> >>
        \o (IF Len(q) > 3 THEN << LastThreeWords(q) >> ELSE << >>)
    ELSE IF att = 2 THEN
        << q, <<"how", "to", "say">> \o q, q \o <<"in", "Ga", "language">> >>
        \o (IF ~StartsWithInterrogative(q) THEN << <<"what", "is">> \o q >> ELSE << >>)
    ELSE << q >>

-----------------------------------------------------------------------------
(* Adaptive retriever: retriever.py retrieve_context *)

RECURSIVE MaxScore(_)
MaxScore(nodes) ==
    IF Len(nodes) = 1 THEN nodes[1].score
    ELSE LET m == MaxScore(Tail(nodes))
         IN IF nodes[1].score >= m THEN nodes[1].score ELSE m

\* retriever.py:88-107
HasRelevantResultsAll(nodes) ==
    nodes # <<>> /\ \A i \in 1..Len(nodes) : nodes[i].score >= MIN_RELEVANCE_SCORE
has_relevant_results(nodes) ==
    IF nodes = <<>> THEN FALSE
    ELSE \E i \in 1..Len(nodes) : nodes[i].score >= MIN_RELEVANCE_SCORE

\* retriever.py:147-153
RECURSIVE FilterNodes(_, _)
FilterNodes(nodes, f) ==
    IF f = NoFilter \/ nodes = <<>> THEN nodes
    ELSE (IF nodes[1].src = f THEN <<nodes[1]>> ELSE <<>>) \o FilterNodes(Tail(nodes), f)

NoRef == [failed |-> FALSE, done |-> FALSE, best_nodes |-> <<>>, best_score |-> 0,
          retrieved |-> <<>>]

\* retriever.py:129-136: get_retriever -> get_vector_store raises ConnectionError
\* when Qdrant does not answer (vector_store.py:50-60) and the exception leaves
\* retrieve_context before any search; otherwise a missing collection is
\* created (vector_store.py:70-82), the locals are set and the first iteration
\* of both loops begins
RetrieveEnter(q, f, m) ==
    /\ rquery' = q
    /\ rfilter' = f
    /\ rmax' = m
    /\ attempt' = 0
    /\ vidx' = 1
    /\ best_nodes' = <<>>
    /\ best_score' = 0
    /\ retrieved' = <<>>
    /\ searchCalls' = 0
    /\ hitAt' = 0
    /\ hitNodes' = <<>>
    /\ seenAny' = FALSE
    /\ seenBest' = <<>>
    /\ seenBestScore' = 0
    /\ ref' = NoRef
    /\ masked' = FALSE
    /\ IF reachable
       THEN rpc' = "searching" /\ collection' = TRUE
       ELSE rpc' = "raised" /\ UNCHANGED collection

\* what the observers record about one search outcome (independent of the
\* code's control flow)
Observe(nodes) ==
    /\ searchCalls' = searchCalls + 1
    /\ IF hitAt = 0 /\ nodes # <<>> /\ MaxScore(nodes) >= MIN_RELEVANCE_SCORE
       THEN hitAt' = searchCalls + 1 /\ hitNodes' = nodes
       ELSE UNCHANGED <<hitAt, hitNodes>>
    /\ IF nodes # <<>> /\ (~seenAny \/ MaxScore(nodes) > seenBestScore)
       THEN seenAny' = TRUE /\ seenBest' = nodes /\ seenBestScore' = MaxScore(nodes)
       ELSE UNCHANGED <<seenAny, seenBest, seenBestScore>>

AdvanceExtraAttempt(newBest) ==
    IF vidx < Len(generate_query_variations(rquery, attempt))
    THEN vidx' = vidx + 1 /\ UNCHANGED <<attempt, retrieved, rpc>>
    ELSE IF attempt + 1 <= rmax
    THEN attempt' = attempt + 1 /\ vidx' = 1 /\ UNCHANGED <<retrieved, rpc>>
    ELSE retrieved' = newBest /\ rpc' = "done" /\ UNCHANGED <<attempt, vidx>>
\* next iteration of the loops of retriever.py:135-138, or the return of line 174
Advance(newBest) ==
    IF vidx < Len(generate_query_variations(rquery, attempt))
    THEN vidx' = vidx + 1 /\ UNCHANGED <<attempt, retrieved, rpc>>
    ELSE IF attempt + 1 < rmax
    THEN attempt' = attempt + 1 /\ vidx' = 1 /\ UNCHANGED <<retrieved, rpc>>
    ELSE retrieved' = newBest /\ rpc' = "done" /\ UNCHANGED <<attempt, vidx>>

\* the iteration in progress is the last one of both loops
LastIteration ==
    /\ vidx >= Len(generate_query_variations(rquery, attempt))
    /\ attempt + 1 >= rmax

\* the reference run (retriever.py:155-167, 174 on its own locals) takes the
\* filtered result `nodes` of this iteration; `raised` records that the real
\* search raised instead of returning
Reference(nodes, raised) ==
    LET r == [ref EXCEPT !.failed = @ \/ raised]
    IN ref' =
         IF r.done THEN r
         ELSE IF has_relevant_results(nodes)
         THEN [r EXCEPT !.done = TRUE, !.retrieved = nodes]
         ELSE LET b == IF nodes # <<>> /\ MaxScore(nodes) > r.best_score
                       THEN [r EXCEPT !.best_score = MaxScore(nodes), !.best_nodes = nodes]
                       ELSE r
              IN IF LastIteration
                 THEN [b EXCEPT !.done = TRUE, !.retrieved = b.best_nodes]
                 ELSE b

SearchRaisedEndsCall ==
    /\ Observe(<<>>)
    /\ Reference(<<>>, TRUE)
    /\ masked' = FALSE
    /\ retrieved' = best_nodes
    /\ rpc' = "done"
    /\ UNCHANGED <<attempt, vidx, best_nodes, best_score>>
\* retriever.py:169-171: retriever.retrieve raised; except Exception: continue
SearchRaised ==
    /\ Observe(<<>>)
    /\ Reference(<<>>, TRUE)
    /\ masked' = FALSE
    /\ Advance(best_nodes)
    /\ UNCHANGED <<best_nodes, best_score>>

SearchStepGateBeforeFilter ==
    /\ rpc = "searching"
    /\ \/ SearchRaised
       \/ \E res \in corpus :
            LET nodes == FilterNodes(res, rfilter) IN
              /\ Observe(nodes)
              /\ Reference(nodes, FALSE)
              /\ masked' = (has_relevant_results(res) /\ ~has_relevant_results(nodes))
              /\ IF has_relevant_results(res)
                 THEN /\ retrieved' = nodes
                      /\ rpc' = "done"
                      /\ UNCHANGED <<attempt, vidx, best_nodes, best_score>>
                 ELSE IF nodes # <<>> /\ MaxScore(nodes) > best_score
                 THEN /\ best_score' = MaxScore(nodes)
                      /\ best_nodes' = nodes
                      /\ Advance(nodes)
                 ELSE /\ UNCHANGED <<best_nodes, best_score>>
                      /\ Advance(best_nodes)
    /\ UNCHANGED <<corpus, reachable, clientVars, writers, collection, rquery, rfilter, rmax>>
    /\ UNCHANGED <<storeVars, lastCall, askVars>>
\* one pass through the loop body, retriever.py:139-171
SearchStep ==
    /\ rpc = "searching"
    /\ \/ SearchRaised
       \/ \E res \in corpus :
            LET nodes == FilterNodes(res, rfilter) IN
              /\ Observe(nodes)
              /\ Reference(nodes, FALSE)
              /\ masked' = (has_relevant_results(res) /\ ~has_relevant_results(nodes))
              /\ IF has_relevant_results(nodes)
                 THEN /\ retrieved' = nodes
                      /\ rpc' = "done"
                      /\ UNCHANGED <<attempt, vidx, best_nodes, best_score>>
                 ELSE IF nodes # <<>> /\ MaxScore(nodes) > best_score
                 THEN /\ best_score' = MaxScore(nodes)
                      /\ best_nodes' = nodes
                      /\ Advance(nodes)
                 ELSE /\ UNCHANGED <<best_nodes, best_score>>
                      /\ Advance(best_nodes)
    /\ UNCHANGED <<corpus, reachable, clientVars, writers, collection, rquery, rfilter, rmax>>
    /\ UNCHANGED <<storeVars, lastCall, askVars>>

\* retrieve_context has returned: its locals are gone
RetrieveLeave ==
    /\ rpc' = "idle"
    /\ rquery' = <<>>
    /\ rfilter' = NoFilter
    /\ rmax' = DEFAULT_MAX_RETRIES
    /\ attempt' = 0
    /\ vidx' = 1
    /\ best_nodes' = <<>>
    /\ best_score' = 0
    /\ retrieved' = <<>>
    /\ searchCalls' = 0
    /\ hitAt' = 0
    /\ hitNodes' = <<>>
    /\ seenAny' = FALSE
    /\ seenBest' = <<>>
    /\ seenBestScore' = 0
    /\ ref' = NoRef
    /\ masked' = FALSE

InitRetr ==
    /\ rpc = "idle"
    /\ rquery = <<>>
    /\ rfilter = NoFilter
    /\ rmax = DEFAULT_MAX_RETRIES
    /\ attempt = 0
    /\ vidx = 1
    /\ best_nodes = <<>>
    /\ best_score = 0
    /\ retrieved = <<>>
    /\ searchCalls = 0
    /\ hitAt = 0
    /\ hitNodes = <<>>
    /\ seenAny = FALSE
    /\ seenBest = <<>>
    /\ seenBestScore = 0
    /\ ref = NoRef
    /\ masked = FALSE

-----------------------------------------------------------------------------
(* Message store: storage/supabase.py *)

MEMORY_WINDOW_SIZE == 10
MaxConvs == 2                   \* conversation ids the store allocates
MaxStoreMsgs == 4               \* messages inserted by direct save_message calls
MaxWindow == 3                  \* largest window_size / limit a direct caller passes

NoneId == 0                     \* conversation_id None
ForeignId == -1                 \* a caller-chosen id that the store never allocated

None == <<>>                    \* an absent optional value; Some(x) is <<x>>
Some(x) == <<x>>
\* Python truthiness of an optional text
Truthy(opt) == opt # None /\ opt[1] # <<>>

Min(a, b) == IF a <= b THEN a ELSE b
Take(seq, n) == SubSeq(seq, 1, Min(n, Len(seq)))

NoCall == [op |-> "none"]

InitStore ==
    /\ messages = <<>>
    /\ uuidNext = 1
    /\ meta = {}
    /\ lastCall = NoCall

\* supabase.py:168-170: the conversation_id the inserted row carries
ResolvedId(cid) == IF cid = NoneId THEN uuidNext ELSE cid

\* supabase.py:145-181 save_message
SaveMessage(cid, role, content) ==
    /\ messages' = Append(messages,
                          [id |-> Len(messages) + 1,
                           conversation_id |-> ResolvedId(cid),
                           role |-> role,
                           content |-> content])
    /\ uuidNext' = IF cid = NoneId THEN uuidNext + 1 ELSE uuidNext

ConversationExistsAny(cid) == messages # <<>>
\* supabase.py:184-204 conversation_exists
conversation_exists(cid) ==
    \E i \in 1..Len(messages) : messages[i].conversation_id = cid

\* rows of one conversation in created_at order
ConversationRows(cid) ==
    SelectSeq(messages, LAMBDA m : m.conversation_id = cid)

\* supabase.py:207-234 get_messages; limit 0 stands for None (and is falsy as well)
get_messages_short(cid, limit) ==
    LET rows == SelectSeq(messages, LAMBDA m : m.conversation_id = cid)
    IN IF limit # 0 THEN Take(rows, limit - 1) ELSE rows
get_messages(cid, limit) ==
    LET rows == SelectSeq(messages, LAMBDA m : m.conversation_id = cid)
    IN IF limit # 0 THEN Take(rows, limit) ELSE rows

\* memory.py:44-58: role string -> LangChain message class
MessageType(role) ==
    CASE role = "user" -> "human"
      [] role = "assistant" -> "ai"
      [] role = "system" -> "system"
      [] OTHER -> "human"

\* memory.py:23-60 get_memory_window
get_memory_window(cid, window_size) ==
    LET messages_data == get_messages(cid, window_size)
    IN [i \in 1..Len(messages_data) |->
            [type |-> MessageType(messages_data[i].role),
             content |-> messages_data[i].content]]

-----------------------------------------------------------------------------
(* Supabase client handle: storage/supabase.py get_supabase_client *)

MaxCallers == 3                 \* coroutines that may be inside get_supabase_client

NoClient == 0                   \* _client is None
Callers == 1..MaxCallers
NoCaller == [pc |-> "out", handle |-> NoClient]

\* supabase.py:14
InitClient ==
    /\ client = NoClient
    /\ created = 0
    /\ callers = [c \in Callers |-> NoCaller]

-----------------------------------------------------------------------------
(* Writers of the conversation summaries table *)

WriterNames == {"summary", "title"}     \* direct callers, named after the function they call
AskWriter == "ask"                      \* the Summarizer / Titler of the ask call in progress
\* fn: the function the coroutine is in; text, title: its arguments;
\* existing: the rows its select returned
NoWriter == [pc |-> "out", fn |-> "none", cid |-> NoneId, text |-> <<>>, title |-> None,
             existing |-> {}]

InitWriters == writers = [w \in WriterNames \cup {AskWriter} |-> NoWriter]

\* no coroutine is between the select and the upsert of a write
NoWriteInFlight == \A w \in DOMAIN writers : writers[w].pc = "out"

-----------------------------------------------------------------------------
(* No request in progress *)

NoReq == [kind |-> "none", query |-> <<>>, cid |-> NoneId, given |-> NoneId,
          stream |-> FALSE, skip |-> FALSE, base |-> 0,
          entry |-> [title |-> FALSE, summary |-> FALSE]]
NoCtx == [title |-> None, summary |-> None, memory_window |-> <<>>]
NoPrompt == [parts |-> <<>>, chat_history |-> <<>>, question |-> <<>>]
NoResult == [status |-> "none", at |-> "none", conversation_id |-> NoneId]

InitAsk ==
    /\ pc = "idle"
    /\ req = NoReq
    /\ ctx = NoCtx
    /\ prompt = NoPrompt
    /\ full_response = <<>>
    /\ delivered = <<>>
    /\ result = NoResult
    /\ log = <<>>

-----------------------------------------------------------------------------
(* Message store and memory window on their own: direct callers *)

StoreRoles == {"user", "assistant", "tool"}
CallerIds == {NoneId, ForeignId} \cup 1..(uuidNext - 1)

SaveMessageCall ==
    /\ Len(messages) < MaxStoreMsgs
    /\ \E cid \in CallerIds, role \in StoreRoles :
         /\ cid = NoneId => uuidNext <= MaxConvs
         /\ SaveMessage(cid, role, <<"m">>)
         /\ lastCall' = [op |-> "save_message", cid |-> cid, saved |-> ResolvedId(cid)]
    /\ UNCHANGED <<corpus, reachable, clientVars, writers, collection, retrVars, meta, askVars>>

GetMemoryWindowCall ==
    /\ \E cid \in CallerIds \ {NoneId}, size \in 1..MaxWindow :
         lastCall' = [op |-> "window", cid |-> cid, size |-> size,
                      rows |-> get_messages(cid, size),
                      result |-> get_memory_window(cid, size),
                      conv |-> ConversationRows(cid)]
    /\ UNCHANGED <<corpus, reachable, clientVars, writers, collection, retrVars, storeVars, askVars>>

InitMemory ==
    /\ corpus = {}
    /\ collection = TRUE
    /\ reachable = TRUE
    /\ InitRetr
    /\ InitStore
    /\ InitAsk
    /\ InitClient
    /\ InitWriters

NextMemory == SaveMessageCall \/ GetMemoryWindowCall

SpecMemory == InitMemory /\ [][NextMemory]_vars

-----------------------------------------------------------------------------
(* Conversation summaries table: storage/supabase.py *)

\* select("*").eq("conversation_id", cid) on conversation_summaries
ExistingRows(cid) == {r \in meta : r.conversation_id = cid}

\* the payload `rec` with column `name` set to `val`
WithColumn(rec, name, val) ==
    [c \in DOMAIN rec \cup {name} |-> IF c = name THEN val ELSE rec[c]]

MetaColumns == {"conversation_id", "summary", "title"}

\* table.upsert(data): the columns of the payload overwrite those of the row
\* with the same primary key; a new row gets NULL in the columns not supplied
Upsert(table, data) ==
    LET old == {r \in table : r.conversation_id = data.conversation_id}
        merged(r) == [c \in MetaColumns |-> IF c \in DOMAIN data THEN data[c] ELSE r[c]]
        fresh == [c \in MetaColumns |-> IF c \in DOMAIN data THEN data[c] ELSE None]
    IN IF old = {} THEN table \cup {fresh}
       ELSE (table \ old) \cup {merged(r) : r \in old}

\* supabase.py:259-272: payload of save_conversation_summary; title is None or Some(text)
SummaryDataDropsTitle(existing, cid, summary, title) ==
    [conversation_id |-> cid, summary |-> Some(summary), title |-> title]
SummaryData(existing, cid, summary, title) ==
    LET summary_data == [conversation_id |-> cid, summary |-> Some(summary)]
    IN IF existing # {}
       THEN LET existing_title == (CHOOSE r \in existing : TRUE).title
            IN IF Truthy(existing_title) /\ ~Truthy(title)
               THEN WithColumn(summary_data, "title", existing_title)
               ELSE IF Truthy(title)
               THEN WithColumn(summary_data, "title", title)
               ELSE summary_data
       ELSE IF Truthy(title)
       THEN WithColumn(summary_data, "title", title)
       ELSE summary_data

\* supabase.py:358-369: payload of save_conversation_title
TitleData(existing, cid, title) ==
    LET title_data == [conversation_id |-> cid, title |-> Some(title)]
    IN IF existing # {}
       THEN LET existing_summary == (CHOOSE r \in existing : TRUE).summary
            IN WithColumn(title_data, "summary",
                          IF Truthy(existing_summary) THEN existing_summary ELSE Some(<<>>))
       ELSE WithColumn(title_data, "summary", Some(<<>>))

\* supabase.py:254-257 / 352-355: the coroutine has the rows its select
\* returned and is suspended before its upsert
Selected(fn, cid, text, title) ==
    [pc |-> "read", fn |-> fn, cid |-> cid, text |-> text, title |-> title,
     existing |-> {r \in meta : r.conversation_id = cid}]

\* supabase.py:259-272 / 358-369: the payload, built from the rows selected earlier
Payload(me) ==
    IF me.fn = "summary"
    THEN SummaryData(me.existing, me.cid, me.text, me.title)
    ELSE TitleData(me.existing, me.cid, me.text)

\* supabase.py:292-313 get_conversation_summary
get_conversation_summary(cid) ==
    IF ExistingRows(cid) # {} THEN (CHOOSE r \in ExistingRows(cid) : TRUE).summary ELSE None

\* supabase.py:316-337 get_conversation_title
get_conversation_title(cid) ==
    IF ExistingRows(cid) # {} THEN (CHOOSE r \in ExistingRows(cid) : TRUE).title ELSE None

-----------------------------------------------------------------------------
(* Conversation summaries table on its own: direct callers, one write at a time *)

MetaIds == {1, ForeignId}
TitleTexts == {<<>>, <<"t1">>, <<"t2">>}
SummaryTexts == {<<>>, <<"s1">>, <<"s2">>}

\* supabase.py:340-355: save_conversation_title is called and selects the existing row
SaveTitleCall ==
    /\ writers["title"].pc = "out"
    /\ \E cid \in MetaIds, t \in TitleTexts :
         /\ writers' = [writers EXCEPT !["title"] = Selected("title", cid, t, None)]
         /\ lastCall' = [op |-> "save_title", cid |-> cid, title |-> Some(t),
                         summary |-> None, before |-> ExistingRows(cid),
                         prev |-> [op |-> lastCall.op,
                                   cid |-> IF lastCall.op = "none" THEN NoneId ELSE lastCall.cid,
                                   title |-> IF lastCall.op = "none" THEN None ELSE lastCall.title,
                                   summary |-> IF lastCall.op = "none" THEN None ELSE lastCall.summary]]
    /\ UNCHANGED <<corpus, reachable, clientVars, collection, retrVars, storeVars, askVars>>

\* supabase.py:237-257: save_conversation_summary is called and selects the existing row
SaveSummaryCall ==
    /\ writers["summary"].pc = "out"
    /\ \E cid \in MetaIds, sm \in SummaryTexts, t \in {None} \cup {Some(x) : x \in TitleTexts} :
         /\ writers' = [writers EXCEPT !["summary"] = Selected("summary", cid, sm, t)]
         /\ lastCall' = [op |-> "save_summary", cid |-> cid, title |-> t,
                         summary |-> Some(sm), before |-> ExistingRows(cid),
                         prev |-> [op |-> lastCall.op,
                                   cid |-> IF lastCall.op = "none" THEN NoneId ELSE lastCall.cid,
                                   title |-> IF lastCall.op = "none" THEN None ELSE lastCall.title,
                                   summary |-> IF lastCall.op = "none" THEN None ELSE lastCall.summary]]
    /\ UNCHANGED <<corpus, reachable, clientVars, collection, retrVars, storeVars, askVars>>

\* supabase.py:259-278 / 358-372: the payload is built from the row selected
\* earlier and upserted; the call returns
WriterUpsert(w) ==
    /\ writers[w].pc = "read"
    /\ meta' = Upsert(meta, Payload(writers[w]))
    /\ writers' = [writers EXCEPT ![w] = NoWriter]
    /\ UNCHANGED <<corpus, reachable, clientVars, collection, retrVars, messages, uuidNext, lastCall, askVars>>

InitMeta ==
    /\ corpus = {}
    /\ collection = TRUE
    /\ reachable = TRUE
    /\ InitRetr
    /\ InitStore
    /\ InitAsk
    /\ InitClient
    /\ InitWriters

\* the caller awaits each write before it starts the next
NextMeta ==
    \/ NoWriteInFlight /\ SaveTitleCall
    \/ NoWriteInFlight /\ SaveSummaryCall
    \/ \E w \in WriterNames : WriterUpsert(w)

SpecMeta == InitMeta /\ [][NextMeta]_vars

-----------------------------------------------------------------------------
(* Conversation summaries table under concurrent writers: the Summarizer of *)
(* one ask call and the Titler of another, each suspended between its       *)
(* select and its upsert                                                     *)

WriterTexts(w) == IF w = "summary" THEN {<<"s1">>, <<"s2">>} ELSE {<<"t1">>, <<"t2">>}

\* supabase.py:254-257 / 352-355: the writer has selected the existing row and awaits
WriterRead(w) ==
    /\ writers[w].pc = "out"
    /\ \E cid \in MetaIds, text \in WriterTexts(w) :
         writers' = [writers EXCEPT ![w] = Selected(w, cid, text, None)]
    /\ UNCHANGED <<corpus, reachable, clientVars, collection, retrVars, storeVars, lastCall, askVars>>

InitMetaRace ==
    /\ corpus = {}
    /\ collection = TRUE
    /\ reachable = TRUE
    /\ InitRetr
    /\ InitStore
    /\ InitAsk
    /\ InitClient
    /\ InitWriters

NextMetaRace == \E w \in WriterNames : WriterRead(w) \/ WriterUpsert(w)

SpecMetaRace == InitMetaRace /\ [][NextMetaRace]_vars

-----------------------------------------------------------------------------
(* Client handle on its own: coroutines of one event loop calling            *)
(* get_supabase_client; the code between two awaits runs without interruption *)

\* supabase.py:19-21, 25: the coroutine tests _client; it returns the handle
\* at once, or is suspended in `await AsyncClient.create(...)`
ClientEnter(c) ==
    /\ callers[c].pc = "out"
    /\ callers' = [callers EXCEPT ![c] =
                      IF client = NoClient
                      THEN [pc |-> "creating", handle |-> NoClient]
                      ELSE [pc |-> "returned", handle |-> client]]
    /\ UNCHANGED <<client, created>>
    /\ UNCHANGED <<corpus, reachable, collection, retrVars, storeVars, lastCall, writers, askVars>>

\* supabase.py:21-25: AsyncClient.create returns a new handle, which is
\* assigned to _client and returned
ClientCreated(c) ==
    /\ callers[c].pc = "creating"
    /\ created' = created + 1
    /\ client' = created + 1
    /\ callers' = [callers EXCEPT ![c] = [pc |-> "returned", handle |-> created + 1]]
    /\ UNCHANGED <<corpus, reachable, collection, retrVars, storeVars, lastCall, writers, askVars>>

\* the caller is done with the handle it received
ClientLeave(c) ==
    /\ callers[c].pc = "returned"
    /\ callers' = [callers EXCEPT ![c] = NoCaller]
    /\ UNCHANGED <<client, created>>
    /\ UNCHANGED <<corpus, reachable, collection, retrVars, storeVars, lastCall, writers, askVars>>

InitClientSpec ==
    /\ corpus = {}
    /\ collection = TRUE
    /\ reachable = TRUE
    /\ InitRetr
    /\ InitStore
    /\ InitAsk
    /\ InitClient
    /\ InitWriters

NextClient ==
    \E c \in Callers : ClientEnter(c) \/ ClientCreated(c) \/ ClientLeave(c)

SpecClient == InitClientSpec /\ [][NextClient]_vars

-----------------------------------------------------------------------------
(* Retriever on its own: any caller, any query, filter and max_retries *)

RetrieverQueries ==
    { <<"ojekoo">>,
      <<"ga", "word">>,
      <<"what", "is", "the", "word", "ojekoo">> }

RetrieveCall ==
    /\ rpc \in {"idle", "done", "raised"}
    /\ \E q \in RetrieverQueries, f \in {NoFilter} \cup Sources, m \in 1..MaxRetries :
         RetrieveEnter(q, f, m)
    /\ UNCHANGED <<corpus, reachable, clientVars, writers, storeVars, lastCall, askVars>>

InitRetriever ==
    /\ corpus = ChunkLists
    /\ collection \in BOOLEAN
    /\ reachable \in BOOLEAN
    /\ InitRetr
    /\ InitStore
    /\ InitAsk
    /\ InitClient
    /\ InitWriters

NextRetriever == RetrieveCall \/ SearchStep

SpecRetriever == InitRetriever /\ [][NextRetriever]_vars

\* Qdrant answers or not when the call starts; the searches of a call that
\* has started return chunk lists, or all of them raise (corpus = {}: the
\* embedding of the query or the search request fails)
InitRetrieverFair ==
    /\ corpus \in { {}, {<<>>, <<[score |-> 2, src |-> "a"]>>, <<[score |-> 3, src |-> "b"]>>} }
    /\ collection \in BOOLEAN
    /\ reachable \in BOOLEAN
    /\ InitRetr
    /\ InitStore
    /\ InitAsk
    /\ InitClient
    /\ InitWriters

\* retrieve_context is synchronous code (retriever.py:135-174): once entered
\* it runs to its return, every retriever.retrieve call returning or raising
SpecRetrieverFair ==
    InitRetrieverFair /\ [][NextRetriever]_vars /\ WF_vars(SearchStep)

-----------------------------------------------------------------------------
(* Summarizer and Titler: rag/memory.py *)

MAX_TITLE_WORDS == 8
TITLE_MESSAGES == 6

TitleTextNoCut(raw) == raw
\* memory.py:196-205: a title of more than 8 words is cut to its first 8
TitleText(raw) ==
    IF Len(raw) > MAX_TITLE_WORDS THEN Take(raw, MAX_TITLE_WORDS) ELSE raw

\* a word that ends with a period
EndsSentence(w) == w \in {"s1.", "s2."}

SummaryTextWhole(raw) == raw
\* memory.py:108-113: split('. '), keep sentences[0] + '.' when there are several
SummaryText(raw) ==
    LET ends == {i \in 1..(Len(raw) - 1) : EndsSentence(raw[i])}
    IN IF ends # {}
       THEN Take(raw, CHOOSE i \in ends : \A j \in ends : i <= j)
       ELSE raw

\* memory.py:74-78: the Summarizer returns None without calling the LLM
SummarizerHasMessages(cid) == get_messages(cid, 0) # <<>>
\* memory.py:133-137: the Titler returns None without calling the LLM
TitlerHasMessages(cid) == get_messages(cid, TITLE_MESSAGES) # <<>>

\* memory.py:83 all_messages[-10:]
SUMMARY_MESSAGES == 10
LastUpTo(seq, n) == SubSeq(seq, IF Len(seq) > n THEN Len(seq) - n + 1 ELSE 1, Len(seq))
\* memory.py:75, 81-84: the role and content of the messages the Summarizer
\* formats into its prompt
SummarizerInput(cid) ==
    LET rows == LastUpTo(get_messages(cid, 0), SUMMARY_MESSAGES)
    IN [i \in 1..Len(rows) |-> [role |-> rows[i].role, content |-> rows[i].content]]

\* memory.py:190-191: user_query[:200], assistant_response[:300]
TITLE_QUERY_LIMIT == 200
TITLE_RESPONSE_LIMIT == 300
RECURSIVE Slice(_, _)
\* text[:n], the first n characters of a text. The text is held as its words,
\* each a string, with one space between two words: the words that fit are
\* kept whole, then the part of the next word that fits.
Slice(text, n) ==
    IF text = <<>> \/ n <= 0 THEN <<>>
    ELSE IF Len(Head(text)) >= n THEN <<SubSeq(Head(text), 1, n)>>
    ELSE <<Head(text)>> \o Slice(Tail(text), n - Len(Head(text)) - 1)
\* memory.py:140-153: the loop keeps the content of the first message of the
\* role; None when no message of the listed ones has the role
FirstOfRole(ms, role) ==
    LET at == {i \in 1..Len(ms) : ms[i].role = role}
    IN IF at = {} THEN None
       ELSE Some(ms[CHOOSE i \in at : \A j \in at : i <= j].content)
TitlerInputsJointFallback(ms) ==
    LET user == FirstOfRole(ms, "user")
        assistant == FirstOfRole(ms, "assistant")
        both == Truthy(user) /\ user[1] # <<>> /\ Truthy(assistant) /\ assistant[1] # <<>>
        user_query == IF both THEN user[1] ELSE ms[1].content
        assistant_response ==
            IF both THEN assistant[1]
            ELSE IF Len(ms) > 1 THEN ms[2].content ELSE <<>>
    IN [user_query |-> Slice(user_query, TITLE_QUERY_LIMIT),
        assistant_response |-> Slice(assistant_response, TITLE_RESPONSE_LIMIT)]
\* memory.py:155-159: each input falls back on its own when it is None or empty
TitlerInputsOf(ms) ==
    LET user == FirstOfRole(ms, "user")
        assistant == FirstOfRole(ms, "assistant")
        user_query == IF Truthy(user) /\ user[1] # <<>> THEN user[1] ELSE ms[1].content
        assistant_response ==
            IF Truthy(assistant) /\ assistant[1] # <<>> THEN assistant[1]
            ELSE IF Len(ms) > 1 THEN ms[2].content ELSE <<>>
    IN [user_query |-> Slice(user_query, TITLE_QUERY_LIMIT),
        assistant_response |-> Slice(assistant_response, TITLE_RESPONSE_LIMIT)]
\* memory.py:134, 189-192: the inputs of the title prompt of a conversation
\* that has messages
TitlerInputs(cid) == TitlerInputsOf(get_messages(cid, TITLE_MESSAGES))

-----------------------------------------------------------------------------
(* Summarizer and Titler on their own: direct callers, any text from the LLM *)

MaxTitleLen == 10               \* words of the longest raw title
MaxSummaryLen == 3              \* words of the longest raw summary

\* texts of 0..MaxTitleLen words, all "t1" but at most one "t2"
RawTitleInputs ==
    {[i \in 1..n |-> IF i = k THEN "t2" ELSE "t1"] : n \in 0..MaxTitleLen, k \in 0..MaxTitleLen}
RawSummaryInputs == UNION {[1..n -> {"w", "s1."}] : n \in 0..MaxSummaryLen}

\* the first message of the first conversation is stored
FirstMessageCall ==
    /\ messages = <<>>
    /\ SaveMessage(NoneId, "user", <<"m">>)
    /\ lastCall' = [op |-> "save_message", cid |-> NoneId, saved |-> ResolvedId(NoneId)]
    /\ UNCHANGED <<corpus, reachable, clientVars, writers, collection, retrVars, meta, askVars>>

\* the Titler / Summarizer called by `fn` has read the messages of `cid`
\* (memory.py:134 / 75) and goes on to its LLM call
MessagesRead(fn, cid) == [NoWriter EXCEPT !.pc = "messages", !.fn = fn, !.cid = cid]

\* memory.py:122-138: generate_conversation_title up to the return of its
\* select of the messages; without a message it returns None
GenerateTitleCall ==
    /\ writers["title"].pc = "out"
    /\ \E cid \in MetaIds :
         IF ~TitlerHasMessages(cid)
         THEN /\ lastCall' = [op |-> "generate_title_none", cid |-> cid]
              /\ UNCHANGED writers
         ELSE /\ writers' = [writers EXCEPT !["title"] = MessagesRead("title", cid)]
              /\ UNCHANGED lastCall
    /\ UNCHANGED <<corpus, reachable, clientVars, collection, retrVars, storeVars, askVars>>

\* memory.py:140-212 -> supabase.py:340-355: the LLM replies `raw`, the title
\* is cut and, when it is not empty, save_conversation_title runs up to the
\* return of its select; an empty title is returned at once
GenerateTitleLlm ==
    /\ writers["title"].pc = "messages"
    /\ \E raw \in RawTitleInputs :
         LET cid == writers["title"].cid
         IN /\ writers' = [writers EXCEPT !["title"] =
                              IF TitleText(raw) # <<>>
                              THEN Selected("title", cid, TitleText(raw), None)
                              ELSE NoWriter]
            /\ lastCall' = [op |-> "generate_title", cid |-> cid, raw |-> raw,
                            result |-> TitleText(raw)]
    /\ UNCHANGED <<corpus, reachable, clientVars, collection, retrVars, storeVars, askVars>>

\* memory.py:63-79: summarize_conversation_messages up to the return of its
\* select of the messages; without a message it returns None
SummarizeCall ==
    /\ writers["summary"].pc = "out"
    /\ \E cid \in MetaIds :
         IF ~SummarizerHasMessages(cid)
         THEN /\ lastCall' = [op |-> "summarize_none", cid |-> cid]
              /\ UNCHANGED writers
         ELSE /\ writers' = [writers EXCEPT !["summary"] = MessagesRead("summary", cid)]
              /\ UNCHANGED lastCall
    /\ UNCHANGED <<corpus, reachable, clientVars, collection, retrVars, storeVars, askVars>>

\* memory.py:81-119 -> supabase.py:237-257: the LLM replies `raw`, the summary
\* is cut and, when it is not empty, save_conversation_summary runs up to the
\* return of its select; an empty summary is returned at once
SummarizeLlm ==
    /\ writers["summary"].pc = "messages"
    /\ \E raw \in RawSummaryInputs :
         LET cid == writers["summary"].cid
         IN /\ writers' = [writers EXCEPT !["summary"] =
                              IF SummaryText(raw) # <<>>
                              THEN Selected("summary", cid, SummaryText(raw), None)
                              ELSE NoWriter]
            /\ lastCall' = [op |-> "summarize", cid |-> cid, raw |-> raw,
                            result |-> SummaryText(raw)]
    /\ UNCHANGED <<corpus, reachable, clientVars, collection, retrVars, storeVars, askVars>>

InitTexts ==
    /\ corpus = {}
    /\ collection = TRUE
    /\ reachable = TRUE
    /\ InitRetr
    /\ InitStore
    /\ InitAsk
    /\ InitClient
    /\ InitWriters

\* the caller awaits each call before it starts the next
NextTexts ==
    \/ FirstMessageCall
    \/ NoWriteInFlight /\ GenerateTitleCall
    \/ NoWriteInFlight /\ SummarizeCall
    \/ GenerateTitleLlm
    \/ SummarizeLlm
    \/ \E w \in WriterNames : WriterUpsert(w)

SpecTexts == InitTexts /\ [][NextTexts]_vars

-----------------------------------------------------------------------------
(* The inputs of the Titler over stored conversations: memory.py:134-192 *)

MaxTitlerMsgs == 7
TitlerRoles == {"user", "assistant", "system"}
TitlerConv == 1
Digits == <<"1", "2", "3", "4", "5", "6", "7", "8", "9">>
\* the content of the n-th stored message: every message has its own text
WordOf(n) == <<"m", Digits[n]>>
NoEmptyContent == \A i \in 1..Len(messages) : messages[i].content # <<>>
LongWordChars == 160            \* characters of one word of the long text
RECURSIVE Chars(_, _)
\* the string of n characters c
Chars(c, n) ==
    IF n = 0 THEN ""
    ELSE IF n % 2 = 0 THEN LET half == Chars(c, n \div 2) IN half \o half
    ELSE c \o Chars(c, n - 1)
\* a text of two words and 2 * LongWordChars + 1 characters, longer than both
\* limits of memory.py:190-191
LongText == <<Chars("x", LongWordChars), Chars("y", LongWordChars)>>

\* supabase.py:145-181: a message of any role; at most one of them without
\* text, and the first one may hold the long text
TitlerSaveCall ==
    /\ Len(messages) < MaxTitlerMsgs
    /\ \E role \in TitlerRoles, content \in {WordOf(Len(messages) + 1), <<>>, LongText} :
         /\ content = <<>> => NoEmptyContent
         /\ content = LongText => messages = <<>>
         /\ LET cid == IF messages = <<>> THEN NoneId ELSE TitlerConv
            IN /\ SaveMessage(cid, role, content)
               /\ lastCall' = [op |-> "save_message", cid |-> cid, saved |-> ResolvedId(cid)]
    /\ UNCHANGED <<corpus, reachable, clientVars, writers, collection, retrVars, meta, askVars>>

\* what the LLM replies to the title prompt: nothing, one word, or more words
\* than a title keeps
TitlerReplies == {<<>>, <<"t1">>, [i \in 1..MaxTitleLen |-> "t1"]}

\* memory.py:122-138, 140-192: generate_conversation_title up to the return of
\* its select of the messages; without a message it returns None, else the
\* inputs of the title prompt are taken from the messages read
TitlerInputsCall ==
    /\ IF ~TitlerHasMessages(TitlerConv)
       THEN /\ lastCall' = [op |-> "title_none", cid |-> TitlerConv]
            /\ UNCHANGED writers
       ELSE /\ writers' = [writers EXCEPT !["title"] = MessagesRead("title", TitlerConv)]
            /\ lastCall' = [op |-> "title_inputs", cid |-> TitlerConv,
                            inputs |-> TitlerInputs(TitlerConv),
                            conv |-> ConversationRows(TitlerConv),
                            result |-> None]
    /\ UNCHANGED <<corpus, reachable, clientVars, collection, retrVars, storeVars, askVars>>

\* memory.py:193-212 -> supabase.py:340-355: the LLM replies `raw` to the
\* prompt, the title is cut and, when it is not empty, save_conversation_title
\* runs up to the return of its select; an empty title is returned at once
TitlerInputsLlm ==
    /\ writers["title"].pc = "messages"
    /\ \E raw \in TitlerReplies :
         /\ writers' = [writers EXCEPT !["title"] =
                           IF TitleText(raw) # <<>>
                           THEN Selected("title", writers["title"].cid, TitleText(raw), None)
                           ELSE NoWriter]
         /\ lastCall' = [lastCall EXCEPT !.result = Some(TitleText(raw))]
    /\ UNCHANGED <<corpus, reachable, clientVars, collection, retrVars, storeVars, askVars>>

InitTitler == InitMemory
\* the caller awaits each call before it starts the next
NextTitler ==
    \/ NoWriteInFlight /\ TitlerSaveCall
    \/ NoWriteInFlight /\ TitlerInputsCall
    \/ TitlerInputsLlm
    \/ WriterUpsert("title")
SpecTitler == InitTitler /\ [][NextTitler]_vars

-----------------------------------------------------------------------------
(* Chat routes (api/routes.py) and orchestrator (rag/service.py ask) *)

MaxMsgs == 3                    \* messages the chat pipeline may store
MaxTokens == 1                  \* tokens of one streamed generation

PipelineQueries == {<<>>, <<"ojekoo">>}
RawTitles == {<<>>, <<"t1">>}
RawSummaries == {<<>>, <<"s1.", "s2.">>}
Tokens == {"a"}
Responses == {<<"a">>}
PipelineCorpus == { <<>>,
                    <<[score |-> 2, src |-> "a"]>>,
                    <<[score |-> 3, src |-> "a"]>> }

\* req.kind: "new" / "continue" (a route) or "ask" (ask called by another caller);
\* req.given: the conversation_id argument; req.cid: the local conversation_id;
\* req.base: number of stored messages once the user message of the turn is in;
\* req.entry: whether a non-empty title / summary is stored when the request starts

StoredOnEntry(cid) ==
    [title |-> Truthy(get_conversation_title(cid)),
     summary |-> Truthy(get_conversation_summary(cid))]

\* the request came through a route in non-streaming mode: its caller waits
\* for an AskResponse (routes.py:201-216 / 274-289)
BatchRoute == req.kind \in {"new", "continue"} /\ ~req.stream

\* what the caller of a route holds as conversation_id once the request is
\* over: the X-Conversation-Id header of a streaming response (routes.py:196-200
\* / 269-273); a batch route hands over no response at all
CallerId ==
    IF req.kind \in {"new", "continue"} /\ req.stream THEN req.given ELSE NoneId

\* an exception leaves ask and reaches the caller
Raise(at) ==
    /\ pc' = "done"
    /\ result' = [status |-> "Error", at |-> at, conversation_id |-> CallerId]

\* a route raises HTTPException before doing anything
Reject(kind, status, q, cid, st) ==
    /\ pc' = "done"
    /\ req' = [kind |-> kind, query |-> q, cid |-> cid, given |-> cid,
               stream |-> st, skip |-> TRUE, base |-> Len(messages),
               entry |-> StoredOnEntry(cid)]
    /\ result' = [status |-> status, at |-> "route", conversation_id |-> NoneId]
    /\ UNCHANGED <<storeVars, log>>

\* a route saves the user message and calls ask(..., skip_user_message=True)
Accept(kind, q, cid, st) ==
    /\ Len(messages) + 2 <= MaxMsgs
    /\ cid = NoneId => uuidNext <= MaxConvs
    /\ SaveMessage(cid, "user", q)
    /\ req' = [kind |-> kind, query |-> q, cid |-> ResolvedId(cid),
               given |-> ResolvedId(cid), stream |-> st, skip |-> TRUE,
               base |-> Len(messages) + 1, entry |-> StoredOnEntry(cid)]
    /\ log' = << <<"save_user", ResolvedId(cid)>> >>
    /\ pc' = "ask"
    /\ UNCHANGED <<meta, result>>

\* the continuation route has passed its checks and goes on to save the user
\* message (routes.py:262-265 / 274-277)
Admit(q, cid, st) ==
    /\ Len(messages) + 2 <= MaxMsgs
    /\ req' = [kind |-> "continue", query |-> q, cid |-> cid, given |-> cid,
               stream |-> st, skip |-> TRUE, base |-> Len(messages),
               entry |-> StoredOnEntry(cid)]
    /\ pc' = "route_save"
    /\ UNCHANGED <<storeVars, result, log>>

\* vector_store.py:107-123: False when the collection is missing or Qdrant
\* does not answer
collection_exists == reachable /\ collection

NewChatNoCollectionCheck ==
    /\ pc = "idle"
    /\ \E q \in PipelineQueries, st \in BOOLEAN :
         IF q = <<>> THEN Reject("new", "ValidationError", q, NoneId, st)
         ELSE Accept("new", q, NoneId, st)
    /\ UNCHANGED <<corpus, reachable, clientVars, writers, collection, retrVars, lastCall, ctx, prompt, full_response, delivered>>

\* routes.py:153-204 new_chat_endpoint up to the call of ask: the checks and
\* the insert of the user message, the route's only statement on the store
NewChat ==
    /\ pc = "idle"
    /\ \E q \in PipelineQueries, st \in BOOLEAN :
         IF q = <<>> THEN Reject("new", "ValidationError", q, NoneId, st)
         ELSE IF ~collection_exists THEN Reject("new", "Unavailable", q, NoneId, st)
         ELSE Accept("new", q, NoneId, st)
    /\ UNCHANGED <<corpus, reachable, clientVars, writers, collection, retrVars, lastCall, ctx, prompt, full_response, delivered>>

\* routes.py:219-259 continue_chat_endpoint: the query check, the select of
\* conversation_exists (routes.py:248) and the collection check made when it
\* has returned
ContinueChat ==
    /\ pc = "idle"
    /\ \E q \in PipelineQueries, st \in BOOLEAN, cid \in CallerIds \ {NoneId} :
         IF q = <<>> THEN Reject("continue", "ValidationError", q, cid, st)
         ELSE IF ~conversation_exists(cid) THEN Reject("continue", "NotFound", q, cid, st)
         ELSE IF ~collection_exists THEN Reject("continue", "Unavailable", q, cid, st)
         ELSE Admit(q, cid, st)
    /\ UNCHANGED <<corpus, reachable, clientVars, writers, collection, retrVars, lastCall, ctx, prompt, full_response, delivered>>

\* routes.py:262-273 / 274-283: the insert of the user message executes and the
\* route calls ask(..., skip_user_message=True)
ContinueChatSave ==
    /\ pc = "route_save"
    /\ SaveMessage(req.cid, "user", req.query)
    /\ req' = [req EXCEPT !.base = Len(messages) + 1]
    /\ log' = << <<"save_user", req.cid>> >>
    /\ pc' = "ask"
    /\ UNCHANGED <<corpus, reachable, clientVars, writers, collection, retrVars, meta, lastCall,
                   ctx, prompt, full_response, delivered, result>>

\* service.py:20-26: ask called by any other caller, with any arguments
AskCall ==
    /\ pc = "idle"
    /\ Len(messages) + 2 <= MaxMsgs
    /\ \E q \in PipelineQueries, st \in BOOLEAN, sk \in BOOLEAN, cid \in CallerIds \ {ForeignId} :
         /\ cid = NoneId => uuidNext <= MaxConvs
         /\ req' = [kind |-> "ask", query |-> q, cid |-> cid, given |-> cid,
                    stream |-> st, skip |-> sk, base |-> Len(messages),
                    entry |-> StoredOnEntry(cid)]
    /\ pc' = "ask"
    /\ UNCHANGED <<corpus, reachable, clientVars, writers, collection, retrVars, storeVars, lastCall,
                   ctx, prompt, full_response, delivered, result, log>>

\* service.py:41-45
AskPersistUser ==
    /\ pc = "ask"
    /\ IF ~req.skip
       THEN /\ SaveMessage(req.cid, "user", req.query)
            /\ req' = [req EXCEPT !.cid = ResolvedId(req.cid), !.base = Len(messages) + 1]
            /\ log' = Append(log, <<"save_user", ResolvedId(req.cid)>>)
       ELSE UNCHANGED <<messages, uuidNext, req, log>>
    /\ pc' = "ctx_title"
    /\ UNCHANGED <<corpus, reachable, clientVars, writers, collection, retrVars, meta, lastCall,
                   ctx, prompt, full_response, delivered, result>>

\* the Summarizer / Titler of the request has called save_conversation_summary /
\* save_conversation_title with `text`, whose select has returned
\* (supabase.py:254-257 / 352-355)
AskSelect(fn, text) ==
    writers' = [writers EXCEPT ![AskWriter] = Selected(fn, req.cid, text, None)]

\* the upsert of that call executes (supabase.py:259-278 / 358-372)
AskUpsert ==
    /\ writers[AskWriter].pc = "read"
    /\ meta' = Upsert(meta, Payload(writers[AskWriter]))
    /\ writers' = [writers EXCEPT ![AskWriter] = NoWriter]

\* service.py:52 -> memory.py:236-238: the select of get_conversation_title
\* (supabase.py:329); a stored non-empty title is the title of the context
CtxTitle ==
    /\ pc = "ctx_title"
    /\ LET title == get_conversation_title(req.cid)
       IN IF Truthy(title)
          THEN /\ ctx' = [ctx EXCEPT !.title = title]
               /\ pc' = "ctx_summary"
          ELSE /\ pc' = "ctx_title_msgs"
               /\ UNCHANGED ctx
    /\ log' = Append(log, <<"context", req.cid>>)
    /\ UNCHANGED <<corpus, reachable, clientVars, writers, collection, retrVars, storeVars, lastCall,
                   req, prompt, full_response, delivered, result>>

\* memory.py:240 -> 134-138: the Titler's select of the messages; without a
\* message it returns None
CtxTitleMessages ==
    /\ pc = "ctx_title_msgs"
    /\ IF TitlerHasMessages(req.cid)
       THEN /\ pc' = "ctx_title_llm"
            /\ UNCHANGED ctx
       ELSE /\ ctx' = [ctx EXCEPT !.title = None]
            /\ pc' = "ctx_summary"
    /\ UNCHANGED <<corpus, reachable, clientVars, writers, collection, retrVars, storeVars, lastCall,
                   req, prompt, full_response, delivered, result, log>>

\* memory.py:140-210: the Titler's LLM call, which may raise, the cut of its
\* text and, for a non-empty title, the select of save_conversation_title
\* (supabase.py:352-355)
CtxTitleGenerate ==
    /\ pc = "ctx_title_llm"
    /\ log' = Append(log, <<"llm_title", req.cid>>)
    /\ \/ /\ Raise("ctx_title")
          /\ UNCHANGED <<writers, ctx>>
       \/ \E raw \in RawTitles :
            /\ IF TitleText(raw) # <<>>
               THEN /\ AskSelect("title", TitleText(raw))
                    /\ pc' = "ctx_title_save"
                    /\ UNCHANGED ctx
               ELSE /\ ctx' = [ctx EXCEPT !.title = Some(<<>>)]
                    /\ pc' = "ctx_summary"
                    /\ UNCHANGED writers
            /\ UNCHANGED result
    /\ UNCHANGED <<corpus, reachable, clientVars, collection, retrVars, storeVars, lastCall,
                   req, prompt, full_response, delivered>>

\* supabase.py:358-372, memory.py:212, 240: the upsert of the title executes
\* and the Titler returns the title to get_conversation_context
CtxTitleSave ==
    /\ pc = "ctx_title_save"
    /\ AskUpsert
    /\ ctx' = [ctx EXCEPT !.title = Some(writers[AskWriter].text)]
    /\ log' = Append(log, <<"meta_title", req.cid>>)
    /\ pc' = "ctx_summary"
    /\ UNCHANGED <<corpus, reachable, clientVars, collection, retrVars, messages, uuidNext, lastCall,
                   req, prompt, full_response, delivered, result>>

CtxSummaryRegenerates ==
    /\ pc = "ctx_summary"
    /\ pc' = "ctx_summary_msgs"
    /\ UNCHANGED <<corpus, reachable, clientVars, writers, collection, retrVars, storeVars, lastCall,
                   req, ctx, prompt, full_response, delivered, result, log>>
\* memory.py:242-245: the select of get_conversation_summary (supabase.py:305);
\* a stored non-empty summary is the summary of the context
CtxSummary ==
    /\ pc = "ctx_summary"
    /\ LET summary == get_conversation_summary(req.cid)
       IN IF Truthy(summary)
          THEN /\ ctx' = [ctx EXCEPT !.summary = summary]
               /\ pc' = "ctx_window"
          ELSE /\ pc' = "ctx_summary_msgs"
               /\ UNCHANGED ctx
    /\ UNCHANGED <<corpus, reachable, clientVars, writers, collection, retrVars, storeVars, lastCall,
                   req, prompt, full_response, delivered, result, log>>

\* memory.py:247 -> 75-79: the Summarizer's select of the messages; without a
\* message it returns None
CtxSummaryMessages ==
    /\ pc = "ctx_summary_msgs"
    /\ IF SummarizerHasMessages(req.cid)
       THEN /\ pc' = "ctx_summary_llm"
            /\ UNCHANGED ctx
       ELSE /\ ctx' = [ctx EXCEPT !.summary = None]
            /\ pc' = "ctx_window"
    /\ UNCHANGED <<corpus, reachable, clientVars, writers, collection, retrVars, storeVars, lastCall,
                   req, prompt, full_response, delivered, result, log>>

\* memory.py:81-117: the Summarizer's LLM call, which may raise, the cut of
\* its text and, for a non-empty summary, the select of
\* save_conversation_summary (supabase.py:254-257)
CtxSummaryGenerate ==
    /\ pc = "ctx_summary_llm"
    /\ log' = Append(log, <<"llm_summary", req.cid>>)
    /\ \/ /\ Raise("ctx_summary")
          /\ UNCHANGED <<writers, ctx>>
       \/ \E raw \in RawSummaries :
            /\ IF SummaryText(raw) # <<>>
               THEN /\ AskSelect("summary", SummaryText(raw))
                    /\ pc' = "ctx_summary_save"
                    /\ UNCHANGED ctx
               ELSE /\ ctx' = [ctx EXCEPT !.summary = Some(<<>>)]
                    /\ pc' = "ctx_window"
                    /\ UNCHANGED writers
            /\ UNCHANGED result
    /\ UNCHANGED <<corpus, reachable, clientVars, collection, retrVars, storeVars, lastCall,
                   req, prompt, full_response, delivered>>

\* supabase.py:259-278, memory.py:119, 247: the upsert of the summary executes
\* and the Summarizer returns the summary to get_conversation_context
CtxSummarySave ==
    /\ pc = "ctx_summary_save"
    /\ AskUpsert
    /\ ctx' = [ctx EXCEPT !.summary = Some(writers[AskWriter].text)]
    /\ log' = Append(log, <<"meta_summary", req.cid>>)
    /\ pc' = "ctx_window"
    /\ UNCHANGED <<corpus, reachable, clientVars, collection, retrVars, messages, uuidNext, lastCall,
                   req, prompt, full_response, delivered, result>>

CtxWindowBeforeTurn ==
    /\ pc = "ctx_window"
    /\ ctx' = [ctx EXCEPT !.memory_window =
                  LET w == get_memory_window(req.cid, MEMORY_WINDOW_SIZE)
                  IN SubSeq(w, 1, Len(w) - 1)]
    /\ RetrieveEnter(req.query, NoFilter, DEFAULT_MAX_RETRIES)
    /\ log' = Append(log, <<"retrieve", req.cid>>)
    /\ IF reachable THEN pc' = "retrieving" /\ UNCHANGED result
                    ELSE Raise("retrieve")
    /\ UNCHANGED <<corpus, reachable, clientVars, writers, storeVars, lastCall, req, prompt, full_response,
                   delivered>>
\* memory.py:249-250, service.py:53-57: memory window, then retrieve_context
\* starts, or raises at once and the exception leaves ask
CtxWindow ==
    /\ pc = "ctx_window"
    /\ ctx' = [ctx EXCEPT !.memory_window = get_memory_window(req.cid, MEMORY_WINDOW_SIZE)]
    /\ RetrieveEnter(req.query, NoFilter, DEFAULT_MAX_RETRIES)
    /\ log' = Append(log, <<"retrieve", req.cid>>)
    /\ IF reachable THEN pc' = "retrieving" /\ UNCHANGED result
                    ELSE Raise("retrieve")
    /\ UNCHANGED <<corpus, reachable, clientVars, writers, storeVars, lastCall, req, prompt, full_response,
                   delivered>>

AskBuildPromptAlwaysContext ==
    /\ pc = "retrieving"
    /\ rpc = "done"
    /\ prompt' =
         [parts |-> <<"system">>
                    \o (IF Truthy(ctx.summary) THEN <<"summary">> ELSE << >>)
                    \o <<"retrieved_context">>
                    \o (IF ctx.memory_window # <<>> THEN <<"chat_history">> ELSE << >>)
                    \o <<"question">>,
          chat_history |-> ctx.memory_window,
          question |-> req.query]
    /\ log' = log \o << <<"prompt", req.cid>>, <<"llm_main", req.cid>> >>
    /\ RetrieveLeave
    /\ pc' = "generate"
    /\ UNCHANGED <<corpus, reachable, clientVars, writers, collection, storeVars, lastCall,
                   req, ctx, full_response, delivered, result>>
\* service.py:58-59, 251-285: context text, prompt parts, LLM chain
AskBuildPrompt ==
    /\ pc = "retrieving"
    /\ rpc = "done"
    /\ LET has_indexed_context == retrieved # <<>>
       IN prompt' =
            [parts |-> <<"system">>
                       \o (IF Truthy(ctx.summary) THEN <<"summary">> ELSE << >>)
                       \o (IF has_indexed_context THEN <<"retrieved_context">>
                                                  ELSE <<"no_context_note">>)
                       \o (IF ctx.memory_window # <<>> THEN <<"chat_history">> ELSE << >>)
                       \o <<"question">>,
             chat_history |-> ctx.memory_window,
             question |-> req.query]
    /\ log' = log \o << <<"prompt", req.cid>>, <<"llm_main", req.cid>> >>
    /\ RetrieveLeave
    /\ pc' = "generate"
    /\ UNCHANGED <<corpus, reachable, clientVars, writers, collection, storeVars, lastCall,
                   req, ctx, full_response, delivered, result>>

StreamTokenPrepends(tokens, max) ==
    /\ pc = "generate"
    /\ req.stream
    /\ Len(full_response) < max
    /\ \E token \in tokens :
         /\ full_response' = <<token>> \o full_response
         /\ delivered' = Append(delivered, token)
    /\ UNCHANGED <<corpus, reachable, clientVars, writers, collection, retrVars, storeVars, lastCall,
                   pc, req, ctx, prompt, result, log>>
\* service.py:290-293: one token of the stream is accumulated and yielded;
\* the LLM draws its tokens from `tokens` and ends after `max` of them at most
StreamToken(tokens, max) ==
    /\ pc = "generate"
    /\ req.stream
    /\ Len(full_response) < max
    /\ \E token \in tokens :
         /\ full_response' = Append(full_response, token)
         /\ delivered' = Append(delivered, token)
    /\ UNCHANGED <<corpus, reachable, clientVars, writers, collection, retrVars, storeVars, lastCall,
                   pc, req, ctx, prompt, result, log>>

GenTokenPersists ==
    /\ pc = "generate"
    /\ req.stream
    /\ Len(full_response) < MaxTokens
    /\ \E token \in Tokens :
         /\ full_response' = Append(full_response, token)
         /\ delivered' = Append(delivered, token)
         /\ SaveMessage(req.cid, "assistant", <<token>>)
    /\ UNCHANGED <<corpus, reachable, clientVars, writers, collection, retrVars, meta, lastCall,
                   pc, req, ctx, prompt, result, log>>
\* service.py:290-293 in the chat pipeline
GenToken == StreamToken(Tokens, MaxTokens)

GenFailKeepsPartial ==
    /\ pc = "generate"
    /\ Raise("generate")
    /\ SaveMessage(req.cid, "assistant", full_response)
    /\ UNCHANGED <<corpus, reachable, clientVars, writers, collection, retrVars, meta, lastCall,
                   req, ctx, prompt, full_response, delivered, log>>

\* service.py:290 / 302: the generation call raises, before or between tokens
GenFail ==
    /\ pc = "generate"
    /\ Raise("generate")
    /\ UNCHANGED <<corpus, reachable, clientVars, writers, collection, retrVars, storeVars, lastCall,
                   req, ctx, prompt, full_response, delivered, log>>

GenEndSkipsPersist ==
    /\ pc = "generate"
    /\ req.stream
    /\ pc' = "summarize"
    /\ UNCHANGED <<corpus, reachable, clientVars, writers, collection, retrVars, storeVars, lastCall,
                   req, ctx, prompt, full_response, delivered, result, log>>
\* the awaits of a streaming call before its token loop (service.py:43, 52)
\* and after it (service.py:296, 299, 300), named by the step they precede
AwaitsBeforeStream ==
    {"ask", "ctx_title", "ctx_title_msgs", "ctx_title_llm", "ctx_title_save",
     "ctx_summary", "ctx_summary_msgs", "ctx_summary_llm", "ctx_summary_save",
     "ctx_window"}
AwaitsAfterStream ==
    {"save_assistant", "summarize", "summarize_llm", "summarize_save",
     "title", "title_llm", "title_save"}
\* where a cancelled call was suspended
CancelledAt ==
    IF pc = "generate" THEN "stream"
    ELSE IF pc \in AwaitsBeforeStream THEN "before_stream"
    ELSE "after_stream"
\* memory.py:105 / 192: the synchronous LLM call of the Summarizer / Titler
\* has returned a text to save when the call is suspended at the select of
\* the save (supabase.py:254-257 / 352-355)
CancelledLog ==
    IF pc \in {"ctx_title_llm", "title_llm"} THEN Append(log, <<"llm_title", req.cid>>)
    ELSE IF pc \in {"ctx_summary_llm", "summarize_llm"}
    THEN Append(log, <<"llm_summary", req.cid>>)
    ELSE log

StreamCancelPersists ==
    /\ req.stream
    /\ pc \in AwaitsBeforeStream \cup {"generate"} \cup AwaitsAfterStream
    /\ pc' = "done"
    /\ result' = [status |-> "Cancelled", at |-> CancelledAt, conversation_id |-> CallerId]
    /\ writers' = [writers EXCEPT ![AskWriter] = NoWriter]
    /\ IF pc = "generate"
       THEN /\ SaveMessage(req.cid, "assistant", full_response)
            /\ log' = log
            /\ UNCHANGED meta
       ELSE /\ UNCHANGED <<messages, uuidNext>>
            /\ \/ /\ log' = CancelledLog
                  /\ UNCHANGED meta
               \/ /\ pc = "title_save"
                  /\ meta' = Upsert(meta, Payload(writers[AskWriter]))
                  /\ log' = Append(log, <<"meta_title", req.cid>>)
    /\ UNCHANGED <<corpus, reachable, clientVars, collection, retrVars, lastCall,
                   req, ctx, prompt, full_response, delivered>>
\* service.py:43-52, 290-300, routes.py:196-200: the consumer of the stream
\* stops (disconnect, cancellation); the generator is cancelled at the await
\* or the yield where it is suspended and nothing after it runs. A statement
\* of the store awaited at that moment has not executed, except that the last
\* upsert of the call (supabase.py:372) may have.
StreamCancel ==
    /\ req.stream
    /\ pc \in AwaitsBeforeStream \cup {"generate"} \cup AwaitsAfterStream
    /\ pc' = "done"
    /\ result' = [status |-> "Cancelled", at |-> CancelledAt, conversation_id |-> CallerId]
    /\ writers' = [writers EXCEPT ![AskWriter] = NoWriter]
    /\ UNCHANGED <<messages, uuidNext>>
    /\ \/ /\ log' = CancelledLog
          /\ UNCHANGED meta
       \/ /\ pc = "title_save"
          /\ meta' = Upsert(meta, Payload(writers[AskWriter]))
          /\ log' = Append(log, <<"meta_title", req.cid>>)
    /\ UNCHANGED <<corpus, reachable, clientVars, collection, retrVars, lastCall,
                   req, ctx, prompt, full_response, delivered>>

\* service.py:290: the token stream is exhausted
GenEnd ==
    /\ pc = "generate"
    /\ req.stream
    /\ pc' = "save_assistant"
    /\ UNCHANGED <<corpus, reachable, clientVars, writers, collection, retrVars, storeVars, lastCall,
                   req, ctx, prompt, full_response, delivered, result, log>>

GenBatchYieldsFirst ==
    /\ pc = "generate"
    /\ ~req.stream
    /\ \E text \in Responses : full_response' = text /\ delivered' = <<text>>
    /\ pc' = "save_assistant"
    /\ UNCHANGED <<corpus, reachable, clientVars, writers, collection, retrVars, storeVars, lastCall,
                   req, ctx, prompt, result, log>>
\* service.py:302-303: the blocking call returns the whole text
GenBatch ==
    /\ pc = "generate"
    /\ ~req.stream
    /\ \E text \in Responses : full_response' = text
    /\ pc' = "save_assistant"
    /\ UNCHANGED <<corpus, reachable, clientVars, writers, collection, retrVars, storeVars, lastCall,
                   req, ctx, prompt, delivered, result, log>>

\* service.py:296 / 306
AskPersistAssistant ==
    /\ pc = "save_assistant"
    /\ req.cid = NoneId => uuidNext <= MaxConvs
    /\ SaveMessage(req.cid, "assistant", full_response)
    /\ log' = Append(log, <<"save_assistant", ResolvedId(req.cid)>>)
    /\ pc' = "summarize"
    /\ UNCHANGED <<corpus, reachable, clientVars, writers, collection, retrVars, meta, lastCall,
                   req, ctx, prompt, full_response, delivered, result>>

AskSummarizeSkipsTitle ==
    /\ pc = "summarize"
    /\ log' = Append(log, <<"summarize", req.cid>>)
    /\ pc' = "done"
    /\ result' = [status |-> "ok", at |-> "end", conversation_id |-> CallerId]
    /\ delivered' = IF req.stream THEN delivered ELSE <<full_response>>
    /\ UNCHANGED <<corpus, reachable, clientVars, writers, collection, retrVars, storeVars, lastCall,
                   req, ctx, prompt, full_response>>
\* service.py:299 / 309 -> memory.py:75-79: the Summarizer's select of the
\* messages; without a message it returns None and ask goes on to the Titler
AskSummarize ==
    /\ pc = "summarize"
    /\ log' = Append(log, <<"summarize", req.cid>>)
    /\ pc' = IF SummarizerHasMessages(req.cid) THEN "summarize_llm" ELSE "title"
    /\ UNCHANGED <<corpus, reachable, clientVars, writers, collection, retrVars, storeVars, lastCall,
                   req, ctx, prompt, full_response, delivered, result>>

\* memory.py:81-117: the Summarizer's LLM call, which may raise, the cut of
\* its text and, for a non-empty summary, the select of
\* save_conversation_summary (supabase.py:254-257)
AskSummarizeGenerate ==
    /\ pc = "summarize_llm"
    /\ log' = Append(log, <<"llm_summary", req.cid>>)
    /\ \/ /\ Raise("summarize")
          /\ UNCHANGED writers
       \/ \E raw \in RawSummaries :
            /\ IF SummaryText(raw) # <<>>
               THEN /\ AskSelect("summary", SummaryText(raw))
                    /\ pc' = "summarize_save"
               ELSE /\ pc' = "title"
                    /\ UNCHANGED writers
            /\ UNCHANGED result
    /\ UNCHANGED <<corpus, reachable, clientVars, collection, retrVars, storeVars, lastCall,
                   req, ctx, prompt, full_response, delivered>>

\* supabase.py:259-278, memory.py:119: the upsert of the summary executes and
\* the Summarizer returns to ask
AskSummarizeSave ==
    /\ pc = "summarize_save"
    /\ AskUpsert
    /\ log' = Append(log, <<"meta_summary", req.cid>>)
    /\ pc' = "title"
    /\ UNCHANGED <<corpus, reachable, clientVars, collection, retrVars, messages, uuidNext, lastCall,
                   req, ctx, prompt, full_response, delivered, result>>

\* service.py:312, routes.py:207-216 / 280-289: the generator of ask ends
\* normally. A batch call of ask has yielded its text to its caller; a batch
\* route then builds AskResponse without the required field timestamp
\* (schemas/responses.py:28), which raises, so the caller of the route gets an
\* error and neither the text nor the conversation_id
Return ==
    /\ pc' = "done"
    /\ result' = IF BatchRoute
                 THEN [status |-> "Error", at |-> "route_response", conversation_id |-> NoneId]
                 ELSE [status |-> "ok", at |-> "end", conversation_id |-> CallerId]
    /\ delivered' = IF req.stream \/ BatchRoute THEN delivered ELSE <<full_response>>

AskTitleSkipsStored ==
    /\ pc = "title"
    /\ log' = Append(log, <<"title", req.cid>>)
    /\ IF TitlerHasMessages(req.cid) /\ ~Truthy(get_conversation_title(req.cid))
       THEN pc' = "title_llm" /\ UNCHANGED <<result, delivered>>
       ELSE Return
    /\ UNCHANGED <<corpus, reachable, clientVars, writers, collection, retrVars, storeVars, lastCall,
                   req, ctx, prompt, full_response>>
\* service.py:300 / 310 -> memory.py:134-138: the Titler's select of the
\* messages; without a message it returns None and ask ends (service.py:312)
AskTitle ==
    /\ pc = "title"
    /\ log' = Append(log, <<"title", req.cid>>)
    /\ IF TitlerHasMessages(req.cid)
       THEN pc' = "title_llm" /\ UNCHANGED <<result, delivered>>
       ELSE Return
    /\ UNCHANGED <<corpus, reachable, clientVars, writers, collection, retrVars, storeVars, lastCall,
                   req, ctx, prompt, full_response>>

\* memory.py:140-210: the Titler's LLM call, which may raise, the cut of its
\* text and, for a non-empty title, the select of save_conversation_title
\* (supabase.py:352-355); without a title to save ask ends (service.py:312)
AskTitleGenerate ==
    /\ pc = "title_llm"
    /\ log' = Append(log, <<"llm_title", req.cid>>)
    /\ \/ /\ Raise("title")
          /\ UNCHANGED <<writers, delivered>>
       \/ \E raw \in RawTitles :
            IF TitleText(raw) # <<>>
            THEN /\ AskSelect("title", TitleText(raw))
                 /\ pc' = "title_save"
                 /\ UNCHANGED <<result, delivered>>
            ELSE /\ Return
                 /\ UNCHANGED writers
    /\ UNCHANGED <<corpus, reachable, clientVars, collection, retrVars, storeVars, lastCall,
                   req, ctx, prompt, full_response>>

\* supabase.py:358-372, memory.py:212, service.py:312: the upsert of the title
\* executes, the Titler returns and ask ends
AskTitleSave ==
    /\ pc = "title_save"
    /\ AskUpsert
    /\ log' = Append(log, <<"meta_title", req.cid>>)
    /\ Return
    /\ UNCHANGED <<corpus, reachable, clientVars, collection, retrVars, messages, uuidNext, lastCall,
                   req, ctx, prompt, full_response>>

\* the request is over; the next one starts from the tables it left
Finish ==
    /\ pc = "done"
    /\ pc' = "idle"
    /\ req' = NoReq
    /\ ctx' = NoCtx
    /\ prompt' = NoPrompt
    /\ full_response' = <<>>
    /\ delivered' = <<>>
    /\ result' = NoResult
    /\ log' = <<>>
    /\ RetrieveLeave
    /\ UNCHANGED <<corpus, reachable, clientVars, writers, collection, storeVars, lastCall>>

\* indexer.py / vector_store.py:75-82: indexing a document creates the collection
CreateCollection ==
    /\ pc = "idle"
    /\ reachable
    /\ ~collection
    /\ collection' = TRUE
    /\ UNCHANGED <<corpus, reachable, clientVars, writers, retrVars, storeVars, lastCall, askVars>>

Init ==
    /\ corpus = PipelineCorpus
    /\ collection \in BOOLEAN
    /\ reachable \in BOOLEAN
    /\ InitRetr
    /\ InitStore
    /\ InitAsk
    /\ InitClient
    /\ InitWriters

Next ==
    \/ NewChat
    \/ ContinueChat
    \/ ContinueChatSave
    \/ AskCall
    \/ AskPersistUser
    \/ CtxTitle
    \/ CtxTitleMessages
    \/ CtxTitleGenerate
    \/ CtxTitleSave
    \/ CtxSummary
    \/ CtxSummaryMessages
    \/ CtxSummaryGenerate
    \/ CtxSummarySave
    \/ CtxWindow
    \/ SearchStep
    \/ AskBuildPrompt
    \/ GenToken
    \/ GenFail
    \/ StreamCancel
    \/ GenEnd
    \/ GenBatch
    \/ AskPersistAssistant
    \/ AskSummarize
    \/ AskSummarizeGenerate
    \/ AskSummarizeSave
    \/ AskTitle
    \/ AskTitleGenerate
    \/ AskTitleSave
    \/ Finish
    \/ CreateCollection

Spec == Init /\ [][Next]_vars

-----------------------------------------------------------------------------
(* One call of ask on an empty store, with streams of several distinct tokens *)

MaxStreamTokens == 3
StreamTokens == {"a", "b"}

\* service.py:290-293 with the longer streams
GenTokenWide == StreamToken(StreamTokens, MaxStreamTokens)

\* every search returns no chunk
InitStream ==
    /\ corpus = {<<>>}
    /\ collection = TRUE
    /\ reachable = TRUE
    /\ InitRetr
    /\ InitStore
    /\ InitAsk
    /\ InitClient
    /\ InitWriters

NextStream ==
    \/ AskCall
    \/ AskPersistUser
    \/ CtxTitle
    \/ CtxTitleMessages
    \/ CtxTitleGenerate
    \/ CtxTitleSave
    \/ CtxSummary
    \/ CtxSummaryMessages
    \/ CtxSummaryGenerate
    \/ CtxSummarySave
    \/ CtxWindow
    \/ SearchStep
    \/ AskBuildPrompt
    \/ GenTokenWide
    \/ GenFail
    \/ StreamCancel
    \/ GenEnd
    \/ GenBatch
    \/ AskPersistAssistant
    \/ AskSummarize
    \/ AskSummarizeGenerate
    \/ AskSummarizeSave
    \/ AskTitle
    \/ AskTitleGenerate
    \/ AskTitleSave

SpecStream == InitStream /\ [][NextStream]_vars

-----------------------------------------------------------------------------
(* Properties of the retriever *)

\* C1: once the k-th search of a retrieve_context call is the first whose
\* filtered result has a max score >= 0.3, the call has returned exactly that
\* filtered list and has issued no search after the k-th.
C1_FirstRelevantReturned ==
    hitAt # 0 => /\ rpc = "done"
                 /\ retrieved = hitNodes
                 /\ searchCalls = hitAt

\* a call that returned on its 2nd or later search, after recording a
\* low-scoring running best on the way
C1_Witness ==
    /\ rpc = "done"
    /\ hitAt > 1
    /\ best_nodes # <<>>
    /\ retrieved = hitNodes
    /\ retrieved # best_nodes

\* C2: if no search cleared the gate, retrieve_context returns the first-seen
\* non-empty filtered result with the globally largest max score, whatever
\* that score is (zero and negative included), and returns the empty list
\* only if every result was empty or failed.
C2_GlobalBestReturned ==
    (rpc = "done" /\ hitAt = 0) =>
        retrieved = (IF seenAny THEN seenBest ELSE <<>>)

-----------------------------------------------------------------------------
(* Properties of the memory window *)

LastN(seq, n) == SubSeq(seq, Len(seq) - n + 1, Len(seq))

\* C3: for a conversation holding more than `size` messages,
\* get_memory_window returns its `size` most recently created messages,
\* oldest first.
C3_WindowIsMostRecent ==
    (lastCall.op = "window" /\ Len(lastCall.conv) > lastCall.size) =>
        LET recent == LastN(lastCall.conv, lastCall.size)
        IN /\ lastCall.rows = recent
           /\ lastCall.result = [i \in 1..Len(recent) |->
                                    [type |-> MessageType(recent[i].role),
                                     content |-> recent[i].content]]

\* C4: for every N >= 1 the window holds at most N messages, in ascending
\* creation order, all of the conversation asked for, one role-tagged entry
\* per row, and is the whole conversation when that has at most N messages.
C4_WindowBounded ==
    lastCall.op = "window" =>
        LET rows == lastCall.rows
            res == lastCall.result
        IN /\ Len(rows) <= lastCall.size
           /\ Len(res) = Len(rows)
           /\ \A i \in 1..Len(rows) :
                 /\ rows[i].conversation_id = lastCall.cid
                 /\ rows[i].id \in 1..Len(messages)
                 /\ messages[rows[i].id] = rows[i]
                 /\ res[i].content = rows[i].content
           /\ \A i \in 1..Len(rows), j \in 1..Len(rows) :
                 i < j => rows[i].id < rows[j].id
           /\ Len(lastCall.conv) <= lastCall.size => rows = lastCall.conv
           /\ lastCall.conv = <<>> => res = <<>>

\* a window call on a conversation that holds exactly `size` messages, next
\* to another conversation's messages
C4_Witness ==
    /\ lastCall.op = "window"
    /\ lastCall.size = 2
    /\ Len(lastCall.conv) = 2
    /\ Len(lastCall.result) = 2
    /\ Len(messages) > 2

-----------------------------------------------------------------------------
(* Properties of the conversation summaries table *)

TitleOnly(c) == c.op = "save_title"
SummaryOnly(c) == c.op = "save_summary" /\ c.title = None

\* C5: a title-only write and a summary-only write on one conversation_id,
\* one after the other in either order, leave one row holding the written
\* title and the written summary; and a write that has returned has left the
\* field it was not given as it was, that field being empty (title write) or
\* absent (summary write) when the write creates the row.
C5_MetaWritesPreserve ==
    (NoWriteInFlight /\ (TitleOnly(lastCall) \/ SummaryOnly(lastCall))) =>
        LET rows == ExistingRows(lastCall.cid)
            row == CHOOSE r \in rows : TRUE
            old == CHOOSE r \in lastCall.before : TRUE
            p == lastCall.prev
        IN /\ Cardinality(rows) = 1
           /\ TitleOnly(lastCall) =>
                 /\ row.title = lastCall.title
                 /\ lastCall.before = {} => row.summary = Some(<<>>)
                 /\ (lastCall.before # {} /\ Truthy(old.summary)) => row.summary = old.summary
                 /\ (lastCall.before # {} /\ ~Truthy(old.summary)) => ~Truthy(row.summary)
                 /\ (SummaryOnly(p) /\ p.cid = lastCall.cid) => row.summary = p.summary
           /\ SummaryOnly(lastCall) =>
                 /\ row.summary = lastCall.summary
                 /\ lastCall.before = {} => row.title = None
                 /\ lastCall.before # {} => row.title = old.title
                 /\ (TitleOnly(p) /\ p.cid = lastCall.cid) => row.title = p.title

\* a summary-only write right after a title-only write on the same
\* conversation, both with non-empty texts, on a row that held another title
\* and summary before
C5_Witness ==
    /\ NoWriteInFlight
    /\ SummaryOnly(lastCall)
    /\ TitleOnly(lastCall.prev)
    /\ lastCall.prev.cid = lastCall.cid
    /\ Truthy(lastCall.summary)
    /\ Truthy(lastCall.prev.title)
    /\ \E r \in meta : /\ r.conversation_id = lastCall.cid
                        /\ r.title = lastCall.prev.title
                        /\ r.summary = lastCall.summary
    /\ \E r \in lastCall.before : Truthy(r.summary) /\ r.summary # lastCall.summary

-----------------------------------------------------------------------------
(* Properties of the chat routes and of ask *)

EventNames == {log[i][1] : i \in 1..Len(log)}
NoMessageOf(cid) == \A i \in 1..Len(messages) : messages[i].conversation_id # cid
RouteRequestStarts == pc = "idle" /\ pc' # "idle" /\ req'.kind \in {"new", "continue"}
NothingDone ==
    /\ UNCHANGED <<storeVars, collection>>
    /\ log' = <<>>
    /\ rpc' = "idle"
    /\ searchCalls' = 0
    /\ full_response' = <<>>
    /\ delivered' = <<>>
\* the generator of ask ran to its end, whatever the route then made of it
AskCompleted == pc = "done" /\ result.at \in {"end", "route_response"}

\* C6: whatever conversation_id and skip_user_message an ask call is given,
\* the user message, the context lookup, the ConversationMeta writes and the
\* assistant message of the call all use one conversation_id, which is not
\* None.
C6_OneConversationId ==
    \A i \in 1..Len(log), j \in 1..Len(log) :
        log[i][2] # NoneId /\ log[i][2] = log[j][2]

\* C7: when the main generation call fails, before any token or part-way
\* through the stream, the call ends with that error, the store holds no
\* message beyond the user message of the turn, and neither the Summarizer
\* nor the Titler ran after the generation began.
C7_GenerationFailureAborts ==
    (pc = "done" /\ result.at = "generate") =>
        /\ result.status = "Error"
        /\ Len(messages) = req.base
        /\ EventNames \cap {"save_assistant", "summarize", "title"} = {}
        /\ log[Len(log)][1] = "llm_main"

\* a streamed generation that failed after a token had reached the caller
C7_Witness ==
    /\ pc = "done"
    /\ result.status = "Error"
    /\ result.at = "generate"
    /\ req.stream
    /\ delivered # <<>>
    /\ full_response # <<>>

\* C8: a continuation request (with a query) naming a conversation_id that
\* has no message ends at once with NotFound; it stores nothing and starts no
\* retrieval and no generation.
C8_UnknownConversationRejected ==
    [][ (RouteRequestStarts /\ req'.kind = "continue" /\ req'.query # <<>>
            /\ NoMessageOf(req'.given))
        => (pc' = "done" /\ result'.status = "NotFound" /\ NothingDone) ]_vars

\* a NotFound rejection while the store holds messages of another conversation
C8_Witness ==
    /\ pc = "done"
    /\ req.kind = "continue"
    /\ result.status = "NotFound"
    /\ messages # <<>>
    /\ NoMessageOf(req.given)
    /\ log = <<>>

\* C9 as stated: a chat request with a query, new or continuation, arriving
\* while collection_exists() is false is rejected with Unavailable and no
\* search call is issued for it.
C9_NoCollectionIsUnavailable ==
    [][ (RouteRequestStarts /\ ~collection_exists /\ req'.query # <<>>)
        => (pc' = "done" /\ result'.status = "Unavailable" /\ NothingDone) ]_vars

\* C9 amended: a chat request arriving while collection_exists() is false
\* (the collection is missing or Qdrant does not answer) is rejected without
\* any search call; the rejection is Unavailable unless an earlier check of
\* the route rejects the request first: ValidationError for an empty query,
\* NotFound for a continuation naming a conversation without messages.
C9_NoCollectionRejected ==
    [][ (RouteRequestStarts /\ ~collection_exists)
        => /\ pc' = "done"
           /\ NothingDone
           /\ result'.status =
                 IF req'.query = <<>> THEN "ValidationError"
                 ELSE IF req'.kind = "continue" /\ NoMessageOf(req'.given) THEN "NotFound"
                 ELSE "Unavailable" ]_vars

\* Unavailable for a continuation of a stored conversation
C9_Witness ==
    /\ pc = "done"
    /\ req.kind = "continue"
    /\ result.status = "Unavailable"
    /\ ~collection_exists
    /\ ~NoMessageOf(req.given)
    /\ searchCalls = 0

\* C10 as stated: every ask with an empty query is rejected with a validation
\* error and has no side effect.
C10_EmptyQueryRejected ==
    (req.kind # "none" /\ req.query = <<>>) =>
        /\ log = <<>>
        /\ Len(messages) = req.base
        /\ pc = "done" => result.status = "ValidationError"

-----------------------------------------------------------------------------
(* Properties of retrieval failures *)

\* C11: a search that raises never ends or fails the retrieve_context call:
\* the loop goes on exactly as if that search had returned zero chunks, so the
\* running best and the returned value equal those of the same call with
\* every raised search replaced by an empty result. The call raises only
\* when get_retriever does, before any search is issued.
C11_FailedSearchIsEmptyResult ==
    /\ rpc \in {"idle", "searching", "done", "raised"}
    /\ rpc = "raised" => (~reachable /\ searchCalls = 0 /\ ~ref.failed)
    /\ rpc = "searching" =>
          /\ ~ref.done
          /\ best_nodes = ref.best_nodes
          /\ best_score = ref.best_score
    /\ rpc = "done" =>
          /\ ref.done
          /\ retrieved = ref.retrieved

\* a call in which a search raised, that went through several searches and
\* returned a non-empty running best
C11_Witness ==
    /\ rpc = "done"
    /\ ref.failed
    /\ hitAt = 0
    /\ searchCalls > 2
    /\ retrieved # <<>>
    /\ retrieved = ref.retrieved

Parts(p) == {p.parts[i] : i \in 1..Len(p.parts)}

\* C12 as stated: whenever retrieve_context ends without a search clearing
\* the 0.3 gate, the prompt ask builds carries the no-indexed-content notice
\* and no retrieved-context block, and generation starts.
C12_ExhaustedRetrievalGetsNotice ==
    [][ (pc = "retrieving" /\ rpc = "done" /\ hitAt = 0)
        => /\ pc' = "generate"
           /\ "no_context_note" \in Parts(prompt')
           /\ "retrieved_context" \notin Parts(prompt') ]_vars

\* C12 amended: a retrieve_context call that has begun to search never makes
\* ask raise, and whenever retrieve_context returns an empty list the prompt carries the
\* no-indexed-content notice and no retrieved-context block, and the main
\* generation call is made next; a non-empty list returned below the gate is
\* put in the prompt as retrieved context.
C12_EmptyRetrievalGetsNotice ==
    [][ /\ pc = "retrieving" => pc' \in {"retrieving", "generate"}
        /\ (pc = "retrieving" /\ rpc = "done" /\ retrieved = <<>>)
              => /\ pc' = "generate"
                 /\ "no_context_note" \in Parts(prompt')
                 /\ "retrieved_context" \notin Parts(prompt')
                 /\ log' = log \o << <<"prompt", req.cid>>, <<"llm_main", req.cid>> >>
        /\ (pc = "retrieving" /\ rpc = "done" /\ retrieved # <<>>)
              => /\ pc' = "generate"
                 /\ "retrieved_context" \in Parts(prompt')
                 /\ "no_context_note" \notin Parts(prompt') ]_vars

\* a request that completed after its generation ran on a prompt carrying the
\* notice
C12_Witness ==
    /\ pc = "done"
    /\ result.status = "ok"
    /\ "no_context_note" \in Parts(prompt)
    /\ "retrieved_context" \notin Parts(prompt)
    /\ full_response # <<>>
    /\ \E i \in 1..Len(log) : log[i][1] = "llm_main"

-----------------------------------------------------------------------------
(* Properties of the client handle *)

\* C13: however the first calls of get_supabase_client interleave, at most
\* one handle is ever created, and every caller holds the handle that
\* _client holds.
C13_SingleClientHandle ==
    /\ created <= 1
    /\ \A c \in Callers : callers[c].pc = "returned" => callers[c].handle = client

-----------------------------------------------------------------------------
(* Properties of a completed turn *)

\* C14: a /chat/new request whose pipeline ran to its end, streaming or not,
\* hands its caller a conversation_id that is not None, that no message
\* stored before the request carried, and under which the user message and
\* the assistant message of the request are stored.
C14_NewConversationIdIsFresh ==
    (AskCompleted /\ req.kind = "new") =>
        LET cid == result.conversation_id
        IN /\ result.status = "ok"
           /\ cid # NoneId
           /\ \A i \in 1..(req.base - 1) : messages[i].conversation_id # cid
           /\ Len(messages) = req.base + 1
           /\ messages[req.base] =
                 [id |-> req.base, conversation_id |-> cid,
                  role |-> "user", content |-> req.query]
           /\ messages[req.base + 1] =
                 [id |-> req.base + 1, conversation_id |-> cid,
                  role |-> "assistant", content |-> full_response]

-----------------------------------------------------------------------------
(* Properties of the Titler and the Summarizer *)

\* C15: whatever text the LLM returns, the title the Titler returns has at
\* most 8 words (the first 8 of the text, or the whole text when it has at
\* most 8), and every title stored in conversation_summaries has at most 8
\* words.
C15_TitleAtMostEightWords ==
    /\ \A r \in meta : r.title # None => Len(r.title[1]) <= 8
    /\ lastCall.op = "generate_title" =>
          LET raw == lastCall.raw
              res == lastCall.result
          IN /\ Len(res) <= 8
             /\ Len(raw) <= 8 => res = raw
             /\ Len(raw) > 8 => res = SubSeq(raw, 1, 8)

\* the Titler got a text of 10 words and stored its first 8
C15_Witness ==
    /\ lastCall.op = "generate_title"
    /\ Len(lastCall.raw) = 10
    /\ lastCall.raw[9] # lastCall.raw[8]
    /\ NoWriteInFlight
    /\ get_conversation_title(lastCall.cid) = Some(SubSeq(lastCall.raw, 1, 8))

\* C16: when the text the LLM returns holds several sentences (a word ending
\* in a period followed by another word), the summary returned, and stored
\* once the Summarizer's write has returned, is the text up to and including
\* the first such word: one sentence, ending in that period.
C16_SummaryIsFirstSentence ==
    (lastCall.op = "summarize"
        /\ \E i \in 1..(Len(lastCall.raw) - 1) : EndsSentence(lastCall.raw[i])) =>
        LET raw == lastCall.raw
            res == lastCall.result
            k == Len(res)
        IN /\ k >= 1
           /\ k < Len(raw)
           /\ res = SubSeq(raw, 1, k)
           /\ EndsSentence(res[k])
           /\ \A i \in 1..(k - 1) : ~EndsSentence(res[i])
           /\ NoWriteInFlight => get_conversation_summary(lastCall.cid) = Some(res)

\* a three-word text whose first sentence ends at the second word
C16_Witness ==
    /\ lastCall.op = "summarize"
    /\ lastCall.raw = <<"w", "s1.", "w">>
    /\ lastCall.result = <<"w", "s1.">>
    /\ NoWriteInFlight
    /\ get_conversation_summary(lastCall.cid) = Some(<<"w", "s1.">>)

-----------------------------------------------------------------------------
(* Properties of the order of the pipeline *)

StepNames == {"save_user", "context", "retrieve", "prompt", "llm_main",
              "save_assistant", "summarize", "title"}

\* the steps of the request so far, in the order they began
StepsDone == SelectSeq([i \in 1..Len(log) |-> log[i][1]], LAMBDA e : e \in StepNames)

IsPrefix(a, b) == Len(a) <= Len(b) /\ a = SubSeq(b, 1, Len(a))

\* the steps a complete pass makes; the user message is stored by ask unless
\* skip_user_message is set (the routes store it themselves before calling ask)
StepsOfPass ==
    (IF req.kind = "ask" /\ req.skip THEN << >> ELSE <<"save_user">>)
    \o <<"context", "retrieve", "prompt", "llm_main", "save_assistant", "summarize", "title">>

\* C17: at every moment of a request the steps begun so far are an initial
\* part of: persist user message (unless skipped), assemble context,
\* retrieve, build prompt, generate, persist assistant message, Summarizer,
\* Titler; retrieval runs only inside its step (a retrieval that raised ended
\* the request there); and a request that completes has made each of these
\* steps exactly once, in that order.
C17_StepsInOrder ==
    /\ IsPrefix(StepsDone, StepsOfPass)
    /\ rpc # "idle" => StepsDone[Len(StepsDone)] = "retrieve"
    /\ rpc \in {"searching", "done"} => pc = "retrieving"
    /\ rpc = "raised" => (pc = "done" /\ result.status = "Error" /\ result.at = "retrieve")
    /\ pc = "generate" => StepsDone[Len(StepsDone)] = "llm_main"
    /\ AskCompleted => StepsDone = StepsOfPass

\* a completed pass of ask, called with skip_user_message unset, in streaming mode
C17_Witness ==
    /\ pc = "done"
    /\ result.status = "ok"
    /\ req.kind = "ask"
    /\ ~req.skip
    /\ req.stream
    /\ StepsDone = <<"save_user", "context", "retrieve", "prompt", "llm_main",
                     "save_assistant", "summarize", "title">>

-----------------------------------------------------------------------------
(* Properties of streaming *)

\* C18: in a streaming request the store holds no assistant message of the
\* turn until the token stream has ended; once the assistant message is
\* stored, generation is over, every token accumulated has been yielded to
\* the caller, and the message holds exactly those tokens.
C18_AssistantSavedAfterStream ==
    (req.kind # "none" /\ req.stream) =>
        /\ pc \in {"route_save", "ask", "ctx_title", "ctx_title_msgs", "ctx_title_llm",
                    "ctx_title_save", "ctx_summary", "ctx_summary_msgs", "ctx_summary_llm",
                    "ctx_summary_save", "ctx_window", "retrieving", "generate",
                    "save_assistant"}
              => /\ Len(messages) = req.base
                 /\ "save_assistant" \notin EventNames
        /\ Len(messages) > req.base
              => /\ pc \in {"summarize", "summarize_llm", "summarize_save",
                            "title", "title_llm", "title_save", "done"}
                 /\ Len(messages) = req.base + 1
                 /\ messages[req.base + 1].role = "assistant"
                 /\ messages[req.base + 1].content = delivered
                 /\ delivered = full_response

\* a streamed turn whose token reached the caller and was stored afterwards
C18_Witness ==
    /\ req.stream
    /\ pc = "summarize"
    /\ delivered # <<>>
    /\ Len(messages) = req.base + 1
    /\ messages[Len(messages)].role = "assistant"
    /\ messages[Len(messages)].content = delivered

\* the steps of the finalization chain the call has begun
ChainEvents == EventNames \cap {"save_assistant", "summarize", "title"}

\* C19: when the consumer of a streaming ask stops before the token stream
\* is exhausted (before the first token or between tokens), the call ends
\* there: no assistant message is stored and no step of the chain persist,
\* summarize, title has begun; a step of that chain is begun only in a call
\* whose generation ended normally (stream exhausted, or batch text returned).
C19_CancelSkipsFinalization ==
    /\ (pc = "done" /\ result.status = "Cancelled") => req.stream
    /\ (pc = "done" /\ result.status = "Cancelled"
          /\ result.at \in {"before_stream", "stream"}) =>
          /\ Len(messages) = req.base
          /\ ChainEvents = {}
          /\ result.at = "stream" => log[Len(log)][1] = "llm_main"
    /\ ChainEvents # {} =>
          /\ pc \in (AwaitsAfterStream \ {"save_assistant"}) \cup {"done"}
          /\ req.stream => delivered = full_response
          /\ pc = "done" =>
                result.at \in {"summarize", "title", "end", "route_response", "after_stream"}

\* a stream cancelled after a token had been yielded
C19_Witness ==
    /\ pc = "done"
    /\ result.status = "Cancelled"
    /\ result.at = "stream"
    /\ req.stream
    /\ delivered # <<>>
    /\ full_response = delivered
    /\ Len(messages) = req.base

-----------------------------------------------------------------------------
(* Properties of concurrent writes to the conversation summaries table *)

RowsOf(table, cid) == {r \in table : r.conversation_id = cid}

\* C20: however a summary write and a title write interleave, the upsert of
\* a summary write leaves the title stored at that moment as it is, and the
\* upsert of a title write leaves the summary stored at that moment as it is.
C20_ConcurrentWritesPreserveSibling ==
    [][ \A w \in WriterNames :
          (writers[w].pc = "read" /\ writers'[w].pc = "out") =>
              \A old \in RowsOf(meta, writers[w].cid) :
                  \A new \in RowsOf(meta', writers[w].cid) :
                      IF w = "summary" THEN new.title = old.title
                                       ELSE new.summary = old.summary ]_vars

-----------------------------------------------------------------------------
(* Properties of the refresh of summary and title *)

Count(e) == Cardinality({i \in 1..Len(log) : log[i][1] = e})
PosOf(e) == CHOOSE i \in 1..Len(log) : log[i][1] = e

\* the main generation of the request returned or its stream was exhausted
GenerationCompleted ==
    pc = "done"
       /\ result.at \in {"summarize", "title", "end", "route_response", "after_stream"}

\* C21 as stated: every ask whose generation completed has called the
\* Summarizer and then the Titler exactly once each after storing the
\* assistant message.
C21_RefreshAlwaysRuns ==
    GenerationCompleted =>
        /\ Count("save_assistant") = 1
        /\ Count("summarize") = 1
        /\ Count("title") = 1
        /\ PosOf("save_assistant") < PosOf("summarize")
        /\ PosOf("summarize") < PosOf("title")

\* C21 amended: every ask whose generation completed and which is not
\* cancelled afterwards has stored the assistant message and then called the
\* Summarizer exactly once; it has called the Titler exactly once after that
\* if the Summarizer returned, and not at all if the Summarizer raised;
\* streaming or batch, title and summary stored or not. A streaming call
\* cancelled after its last token stops at the await it has reached: of the
\* three steps it has begun an initial part, each at most once, in order.
C21_RefreshRunsUnlessSummarizerFails ==
    GenerationCompleted =>
        IF result.at = "after_stream"
        THEN /\ req.stream /\ result.status = "Cancelled"
             /\ Count("save_assistant") <= 1
             /\ Count("summarize") <= Count("save_assistant")
             /\ Count("title") <= Count("summarize")
             /\ Count("summarize") = 1 => PosOf("save_assistant") < PosOf("summarize")
             /\ Count("title") = 1 => PosOf("summarize") < PosOf("title")
        ELSE /\ Count("save_assistant") = 1
             /\ Count("summarize") = 1
             /\ PosOf("save_assistant") < PosOf("summarize")
             /\ IF result.at = "summarize"
                THEN Count("title") = 0
                ELSE Count("title") = 1 /\ PosOf("summarize") < PosOf("title")

\* a completed streamed turn that found a title and a summary stored (no
\* generation during context assembly) and still called both LLM refreshes
C21_Witness ==
    /\ pc = "done"
    /\ result.status = "ok"
    /\ req.stream
    /\ Truthy(ctx.title)
    /\ Truthy(ctx.summary)
    /\ Count("llm_title") = 1
    /\ Count("llm_summary") = 1
    /\ PosOf("save_assistant") < PosOf("llm_summary")
    /\ PosOf("llm_summary") < PosOf("llm_title")

\* the request stored its user message itself or a route stored it
TurnStored == req.kind \in {"new", "continue"} \/ ~req.skip
\* at the end of a completed call the message table is the one the two
\* refreshes of the call have read
CompletedTurn == AskCompleted /\ TurnStored

\* C22: after a completed turn the messages given to the Summarizer hold the
\* query and the answer of the turn, and the two inputs of the Titler are the
\* query and the answer of the turn.
C22_RefreshInputsHoldLatestExchange ==
    CompletedTurn =>
        LET sin == SummarizerInput(req.cid)
            tin == TitlerInputs(req.cid)
        IN /\ \E i \in 1..Len(sin) : sin[i] = [role |-> "user", content |-> req.query]
           /\ \E i \in 1..Len(sin) : sin[i] = [role |-> "assistant", content |-> full_response]
           /\ tin.user_query = req.query
           /\ tin.assistant_response = full_response

-----------------------------------------------------------------------------
(* Properties of get_conversation_context *)

\* the title part of get_conversation_context, which ends when pc becomes
\* "ctx_summary"; `mustStore` tells whether a generated value has to be
\* written to the table before it is returned
StepCancelled == pc' = "done" /\ result'.status = "Cancelled"

TitleStepOk(mustStore(_)) ==
    LET cid == req.cid
        stored == get_conversation_title(cid)
        quiet == meta' = meta /\ Count("llm_title")' = Count("llm_title")
    IN /\ pc = "ctx_title" =>
            /\ quiet
            /\ IF Truthy(stored)
               THEN pc' = "ctx_summary" /\ ctx'.title = stored
               ELSE pc' = "ctx_title_msgs"
       /\ pc = "ctx_title_msgs" =>
            /\ quiet
            /\ ~Truthy(stored)
            /\ IF TitlerHasMessages(cid)
               THEN pc' = "ctx_title_llm"
               ELSE pc' = "ctx_summary" /\ ctx'.title = None
       /\ pc = "ctx_title_llm" =>
            /\ ~Truthy(stored)
            /\ Count("llm_title")' = Count("llm_title") + 1
            /\ meta' = meta
            /\ pc' = "ctx_summary" => (ctx'.title # None /\ ~mustStore(ctx'.title[1]))
       /\ pc = "ctx_title_save" =>
            /\ pc' = "ctx_summary"
            /\ ctx'.title # None
            /\ get_conversation_title(cid)' = ctx'.title
            /\ Count("llm_title")' = Count("llm_title")

SummaryStepOk(mustStore(_)) ==
    LET cid == req.cid
        stored == get_conversation_summary(cid)
        quiet == meta' = meta /\ Count("llm_summary")' = Count("llm_summary")
    IN /\ pc = "ctx_summary" =>
            /\ quiet
            /\ IF Truthy(stored)
               THEN pc' = "ctx_window" /\ ctx'.summary = stored
               ELSE pc' = "ctx_summary_msgs"
       /\ pc = "ctx_summary_msgs" =>
            /\ quiet
            /\ ~Truthy(stored)
            /\ IF SummarizerHasMessages(cid)
               THEN pc' = "ctx_summary_llm"
               ELSE pc' = "ctx_window" /\ ctx'.summary = None
       /\ pc = "ctx_summary_llm" =>
            /\ ~Truthy(stored)
            /\ Count("llm_summary")' = Count("llm_summary") + 1
            /\ meta' = meta
            /\ pc' = "ctx_window" => (ctx'.summary # None /\ ~mustStore(ctx'.summary[1]))
       /\ pc = "ctx_summary_save" =>
            /\ pc' = "ctx_window"
            /\ ctx'.summary # None
            /\ get_conversation_summary(cid)' = ctx'.summary
            /\ Count("llm_summary")' = Count("llm_summary")

WindowStepOk ==
    pc = "ctx_window" =>
        ctx'.memory_window = get_memory_window(req.cid, MEMORY_WINDOW_SIZE)

AnyText(t) == TRUE
NonEmptyText(t) == t # <<>>

\* C23 as stated, for every step of get_conversation_context other than the
\* cancellation of the call: get_conversation_context generates a title exactly when no
\* non-empty title is stored and a summary exactly when no non-empty summary
\* is stored; a stored value is returned as it is, without a generation and
\* without a write of the table; every generated value is returned and is
\* the stored value afterwards; the memory window is read on every call.
C23_ContextGeneratesMissingAndStores ==
    [][StepCancelled \/ (TitleStepOk(AnyText) /\ SummaryStepOk(AnyText) /\ WindowStepOk)]_vars

\* C23 amended: as above, but a generated value is the stored value
\* afterwards only when it is not empty; an empty generated text is returned
\* and the table is left as it was.
C23_ContextGeneratesMissingAndStoresNonEmpty ==
    [][StepCancelled \/ (TitleStepOk(NonEmptyText) /\ SummaryStepOk(NonEmptyText) /\ WindowStepOk)]_vars

\* context assembled with a stored summary returned as it was and a title
\* generated, returned and stored
C23_Witness ==
    /\ pc = "retrieving"
    /\ Count("llm_summary") = 0
    /\ Truthy(ctx.summary)
    /\ get_conversation_summary(req.cid) = ctx.summary
    /\ Count("llm_title") = 1
    /\ ctx.title = Some(<<"t1">>)
    /\ get_conversation_title(req.cid) = ctx.title
    /\ ctx.memory_window # <<>>

-----------------------------------------------------------------------------
(* Properties of the inputs of the Titler *)

\* content of the first message of `role` among `ms`, None without such a message
FirstContent(ms, role) ==
    IF \E i \in 1..Len(ms) : ms[i].role = role
    THEN Some(ms[CHOOSE i \in 1..Len(ms) :
                    /\ ms[i].role = role
                    /\ \A j \in 1..(i - 1) : ms[j].role # role].content)
    ELSE None
SecondContent(ms) == IF Len(ms) > 1 THEN ms[2].content ELSE <<>>
FirstSix(conv) == SubSeq(conv, 1, IF Len(conv) < 6 THEN Len(conv) ELSE 6)
\* the two inputs as the title prompt carries them when they are taken from
\* the texts `u` and `a`: each within its length limit (memory.py:190-191)
TitlerPrompt(u, a) ==
    [user_query |-> Slice(u, TITLE_QUERY_LIMIT),
     assistant_response |-> Slice(a, TITLE_RESPONSE_LIMIT)]

\* C24 as stated: the Titler takes the first user and the first assistant
\* message of the first six; when one of the two roles is missing among them
\* its inputs are the first and the second message (the second input empty
\* for a single message).
C24_TitlerInputsFirstTwoWhenRoleMissing ==
    lastCall.op = "title_inputs" =>
        LET ms == FirstSix(lastCall.conv)
            user == FirstContent(ms, "user")
            assistant == FirstContent(ms, "assistant")
        IN IF user # None /\ assistant # None
           THEN lastCall.inputs = TitlerPrompt(user[1], assistant[1])
           ELSE lastCall.inputs = TitlerPrompt(ms[1].content, SecondContent(ms))

\* C24 amended: of the first six messages, the user input is the text of the
\* first user message, or the text of the first message when there is no
\* user message or its text is empty; the assistant input is the text of the
\* first assistant message, or the text of the second message (empty for a
\* single message) when there is no assistant message or its text is empty;
\* each of the two falls back on its own.
C24_TitlerInputsFallBackSeparately ==
    lastCall.op = "title_inputs" =>
        LET ms == FirstSix(lastCall.conv)
            user == FirstContent(ms, "user")
            assistant == FirstContent(ms, "assistant")
        IN lastCall.inputs =
              TitlerPrompt(IF user \notin {None, Some(<<>>)} THEN user[1] ELSE ms[1].content,
                           IF assistant \notin {None, Some(<<>>)} THEN assistant[1]
                           ELSE SecondContent(ms))

\* a conversation of seven messages whose only user message is the seventh:
\* both inputs are taken from the first message, an assistant one holding the
\* long text, each within its limit
C24_Witness ==
    /\ lastCall.op = "title_inputs"
    /\ Len(lastCall.conv) = 7
    /\ lastCall.conv[7].role = "user"
    /\ \A i \in 1..6 : lastCall.conv[i].role = "assistant" /\ lastCall.conv[i].content # <<>>
    /\ lastCall.conv[1].content = LongText
    /\ lastCall.inputs.user_query =
          <<LongText[1], Chars("y", TITLE_QUERY_LIMIT - LongWordChars - 1)>>
    /\ lastCall.inputs.assistant_response =
          <<LongText[1], Chars("y", TITLE_RESPONSE_LIMIT - LongWordChars - 1)>>

-----------------------------------------------------------------------------
(* Properties of the metadata filter of retrieve_context *)

Matches(nodes, f) == \A i \in 1..Len(nodes) : nodes[i].src = f

\* C25: in a call with a metadata filter every search step leaves a running
\* best and a return value made of chunks that match the filter; a step that
\* ends the call before the last iteration returns a filtered list that
\* clears the gate; and a search whose chunks of score >= 0.3 were all
\* removed by the filter ends the call only as the last iteration, returning
\* the running best of the filtered results.
C25_FilterBeforeGate ==
    [][(rpc = "searching" /\ rfilter # NoFilter) =>
         /\ Matches(best_nodes', rfilter)
         /\ best_nodes' # <<>> => best_score' = MaxScore(best_nodes')
         /\ rpc' = "done" => Matches(retrieved', rfilter)
         /\ (rpc' = "done" /\ ~LastIteration) => has_relevant_results(retrieved')
         /\ masked' =>
              /\ rpc' = "done" => LastIteration /\ retrieved' = best_nodes'
              /\ rpc' = "done" => ~has_relevant_results(retrieved')
              /\ ~LastIteration => rpc' = "searching" /\ searchCalls' = searchCalls + 1
    ]_vars

\* a filtered call goes on searching after a search whose relevant chunks
\* were all removed by the filter, its running best made of matching chunks
C25_Witness ==
    /\ rfilter # NoFilter
    /\ rpc = "searching"
    /\ masked
    /\ searchCalls >= 1
    /\ best_nodes # <<>>
    /\ Matches(best_nodes, rfilter)

-----------------------------------------------------------------------------
(* Properties of the stored answer *)

\* messages appended since the user message of the turn was in the table
AppendedByTurn == SubSeq(messages, req.base + 1, Len(messages))

\* C26: a completed ask has appended exactly one message after the user
\* message of the turn, an assistant message; its content is the text the
\* caller got: the tokens yielded, in the order of their delivery, for a
\* stream, and the single text yielded for a batch call.
C26_StoredAnswerIsDeliveredText ==
    (pc = "done" /\ result.status = "ok") =>
        /\ Len(AppendedByTurn) = 1
        /\ AppendedByTurn[1].role = "assistant"
        /\ IF req.stream
           THEN AppendedByTurn[1].content = delivered
           ELSE delivered = <<AppendedByTurn[1].content>>

\* a completed streamed ask that delivered two different tokens
C26_Witness ==
    /\ pc = "done"
    /\ result.status = "ok"
    /\ req.stream
    /\ Len(delivered) >= 2
    /\ delivered[1] # delivered[2]
    /\ messages[Len(messages)].content = delivered

-----------------------------------------------------------------------------
(* Properties of the search loop of retrieve_context *)

Variations(a) == generate_query_variations(rquery, a)
\* the (attempt, variant) positions of the call, and those before (a, v)
Positions == {p \in (0..(rmax - 1)) \X (1..4) : p[2] <= Len(Variations(p[1]))}
PositionsBefore(a, v) == {p \in Positions : p[1] < a \/ (p[1] = a /\ p[2] < v)}
CurrentText == Variations(attempt)[vidx]

\* while the call runs it stands at a position of the loops and has issued
\* one search for each position before it; a call that returned has issued
\* no more searches than there are positions
SearchesWithinPositions ==
    /\ rpc = "searching" =>
          /\ <<attempt, vidx>> \in Positions
          /\ searchCalls = Cardinality(PositionsBefore(attempt, vidx))
    /\ rpc = "done" => searchCalls <= Cardinality(Positions)
    /\ rpc = "raised" => searchCalls = 0
    /\ Cardinality(Positions) <= rmax * 4

\* when every search raises (corpus = {}) every search so far has raised: the
\* next search is for a text that no earlier position of the call has searched
NoFailedTextAgain ==
    (corpus = {} /\ rpc = "searching" /\ searchCalls' = searchCalls + 1) =>
        \A p \in PositionsBefore(attempt, vidx) : Variations(p[1])[p[2]] # CurrentText

\* C27 as stated: retrieve_context returns; it issues at most one search per
\* (attempt, variant) position; and no query text whose search raised is
\* searched again in the same call.
C27_TerminatesWithoutRepeatingFailedText ==
    /\ []SearchesWithinPositions
    /\ (rpc = "searching") ~> (rpc = "done")
    /\ [][NoFailedTextAgain]_vars

\* C27 amended: a retrieve_context call that has begun to search returns (one
\* that finds Qdrant unreachable raises before any search), and it issues
\* exactly one search for each (attempt, variant) position it passes, hence
\* no more than the number of positions of the call (a text may be searched
\* at several positions, whether its search raised or not).
C27_TerminatesWithinPositions ==
    /\ []SearchesWithinPositions
    /\ (rpc = "searching") ~> (rpc = "done")

\* a call of three attempts whose searches all raised has returned nothing
\* after one search per position
C27_Witness ==
    /\ corpus = {}
    /\ rpc = "done"
    /\ rmax = 3
    /\ searchCalls = Cardinality(Positions)
    /\ searchCalls >= 8
    /\ retrieved = <<>>

-----------------------------------------------------------------------------
(* Properties of batch delivery *)

\* the call ended with an exception raised by the Summarizer or the Titler
\* of the refresh steps
RefreshFailed == pc = "done" /\ result.at \in {"summarize", "title"}
AnswerStored ==
    /\ Len(messages) = req.base + 1
    /\ messages[req.base + 1].role = "assistant"
    /\ messages[req.base + 1].content = full_response

\* C28: a batch call has yielded its text only once the assistant message is
\* stored and the Summarizer and the Titler have both returned, in that
\* order; when one of the two refreshes raises, the assistant message is
\* stored, the caller gets the error and no text; a streaming call whose
\* refresh raises has delivered all its tokens.
C28_BatchTextAfterRefreshes ==
    /\ (req.kind # "none" /\ ~req.stream) =>
          /\ delivered # <<>> =>
                /\ pc = "done"
                /\ result.status = "ok"
                /\ delivered = <<full_response>>
                /\ AnswerStored
                /\ Count("save_assistant") = 1
                /\ Count("summarize") = 1
                /\ Count("title") = 1
                /\ PosOf("save_assistant") < PosOf("summarize")
                /\ PosOf("summarize") < PosOf("title")
          /\ RefreshFailed =>
                /\ result.status = "Error"
                /\ delivered = <<>>
                /\ AnswerStored
    /\ (req.stream /\ RefreshFailed) =>
          /\ result.status = "Error"
          /\ delivered = full_response
          /\ AnswerStored

\* a batch call of ask whose Titler raised in the refresh: the answer is
\* stored and nothing was delivered
C28_Witness ==
    /\ req.kind = "ask"
    /\ ~req.stream
    /\ pc = "done"
    /\ result.status = "Error"
    /\ result.at = "title"
    /\ delivered = <<>>
    /\ full_response # <<>>
    /\ AnswerStored

-----------------------------------------------------------------------------
(* Properties of the chat history of the prompt *)

\* C29: when the user message of the turn was stored by ask or by the route
\* and the conversation holds at most 10 messages at generation time, the
\* chat history of the prompt is present and ends with a human message
\* holding the query, and the last part of the prompt is the question,
\* placed right after the history and holding the same query.
C29_HistoryEndsWithQuery ==
    (pc = "generate" /\ TurnStored
       /\ Len(ConversationRows(req.cid)) <= MEMORY_WINDOW_SIZE) =>
        LET h == prompt.chat_history
            n == Len(prompt.parts)
        IN /\ h # <<>>
           /\ h[Len(h)] = [type |-> "human", content |-> req.query]
           /\ Len(h) = Len(ConversationRows(req.cid))
           /\ n >= 2
           /\ prompt.parts[n - 1] = "chat_history"
           /\ prompt.parts[n] = "question"
           /\ prompt.question = req.query

\* generation of a later turn of a conversation: the history holds an
\* earlier message and then the query, which is also the question
C29_Witness ==
    /\ pc = "generate"
    /\ req.kind = "continue"
    /\ Len(prompt.chat_history) >= 2
    /\ prompt.chat_history[Len(prompt.chat_history)].content = req.query
    /\ prompt.question = req.query
    /\ req.query # <<>>

-----------------------------------------------------------------------------
(* Properties of the number of generations of a call *)

IsLlm(e) == e[1] \in {"llm_title", "llm_summary", "llm_main"}
\* the generations of the request and the start of retrieval, in order
LlmAndRetrieve ==
    LET es == SelectSeq(log, LAMBDA e : IsLlm(e) \/ e[1] = "retrieve")
    IN [i \in 1..Len(es) |-> es[i][1]]
LlmCount == Cardinality({i \in 1..Len(log) : IsLlm(log[i])})
\* every generation of the request gave a text that is not empty
NonEmptyGenerations ==
    /\ Count("meta_title") = Count("llm_title")
    /\ Count("meta_summary") = Count("llm_summary")
    /\ full_response # <<>>
Missing(stored) == IF stored THEN 0 ELSE 1
\* the turn opens a conversation: its user message is the first one stored
NewConversationTurn ==
    /\ TurnStored
    /\ req.kind = "new" \/ (req.kind = "ask" /\ req.given = NoneId)

\* C30: a completed call on a conversation that has messages, all of whose
\* generations gave non-empty text, has made 3 generations plus one for the
\* title and one for the summary when none was stored at its start; on the
\* first turn of a new conversation these are the Titler, then the
\* Summarizer, both over the user message alone and before retrieval, then
\* the main generation, then the Summarizer and the Titler again: five.
C30_GenerationCount ==
    /\ (AskCompleted /\ ConversationRows(req.cid) # <<>> /\ NonEmptyGenerations) =>
          /\ LlmCount = 3 + Missing(req.entry.title) + Missing(req.entry.summary)
          /\ NewConversationTurn =>
                /\ LlmAndRetrieve = <<"llm_title", "llm_summary", "retrieve",
                                      "llm_main", "llm_summary", "llm_title">>
                /\ LlmCount = 5
    /\ (pc \in {"ctx_title", "ctx_title_msgs", "ctx_title_llm", "ctx_title_save",
                "ctx_summary", "ctx_summary_msgs", "ctx_summary_llm", "ctx_summary_save",
                "ctx_window"} /\ NewConversationTurn) =>
          /\ Len(ConversationRows(req.cid)) = 1
          /\ ConversationRows(req.cid)[1].role = "user"

\* the completed first turn of a new chat with its five generations
C30_Witness ==
    /\ AskCompleted
    /\ req.kind = "new"
    /\ NonEmptyGenerations
    /\ Len(ConversationRows(req.cid)) = 2
    /\ LlmCount = 5

====
